---- MODULE Spec2Model ----
(***************************************************************************)
(* TCG ShipAbility: the rule-based parcel classification of Shipping.py    *)
(* (rule list maintenance, load_csv / apply_rules_and_package_logic, row   *)
(* edits, sort modes), the bulk purchase loop of buy_labels_and_build_pdf  *)
(* the label cache and document build of fetch_lables.py, and the          *)
(* fulfillment updates of manapool_fulfillment.py.                         *)
(*                                                                         *)
(* Spec         : settings tab and import: the rule list is edited and     *)
(*                exports are loaded.                                      *)
(* SpecClassify : import alone, under every rule list the settings tab     *)
(*                can leave.                                               *)
(* SpecConvert  : convert tab: exports are loaded, sorted, rows edited.    *)
(* SpecService  : import under every configured default carrier and        *)
(*                service.                                                 *)
(* SpecBuy      : a loaded order table and the purchase batch run on it.   *)
(* SpecRates    : one order bought under every quote list and every        *)
(*                configured default carrier and service.                  *)
(* SpecLabels   : the label cache and build_pdf_from_shipments_multipage   *)
(*                of fetch_lables.py.                                      *)
(* SpecCache    : label builds for shipment ids that differ only in the    *)
(*                character cache_png_path rewrites.                       *)
(* SpecFulfil   : one fulfillment window and one press of its update       *)
(*                button, under every row list and server behaviour.       *)
(* SpecWorkers  : one fulfillment window whose update button is pressed    *)
(*                whenever it is enabled.                                  *)
(***************************************************************************)
EXTENDS Integers, Sequences, FiniteSets, TLC

VARIABLES
    rules,        \* self.config["rules"]: sequence of rule records
    sort_mode,    \* self.config["defaults"]["sort_mode"]
    defaults,     \* self.config["defaults"]: its carrier and service
    loaded,       \* self.data is not None
    index,        \* self.data.index: the row labels in DataFrame order
    data,         \* self.data: row label -> record of the columns
    mask,         \* self._is_package_mask: row label -> BOOLEAN
    call,         \* the last handler run: its name, inputs and rule applications
    pc,           \* position inside buy_labels_and_build_pdf ("idle" outside)
    order,        \* local `order`: row labels the batch iterates over
    pos,          \* 1-based position of the loop in `order`
    bought_ids,   \* local `bought_ids`
    errors,       \* local `errors`: sequence of <<row label, message>>
    mp_rows,      \* local `mp_rows`
    api_log,      \* carrier calls issued so far: <<"create"|"buy", row label>>
    outcome,      \* how the handler left: "", a refusal, "fatal", "ok", "exception"
    key,          \* local `key`: the saved API key as read ("" before it is read)
    buttons,      \* state of load_button, save_button and buy_button
    cache,        \* label_cache: set of <<file name, content>>
    lpc,          \* position inside build_pdf_from_shipments_multipage
    shipment_ids, \* its argument shipment_ids
    li,           \* 1-based position of its loop in shipment_ids
    pdf_blobs,    \* its local pdf_blobs: the pages rendered so far
    out_doc,      \* the pages of the document written at out_path by this build
    status_log,   \* the messages handed to status_cb by this build
    fetch_log,    \* one entry per fetch_or_cache_png_for_shipment call of this build
    build_called, \* build_pdf_from_shipments_multipage was called
    doc_written,  \* the merged document exists at pdf_path
    fulfil_shown, \* show_fulfillment_window was called
    reported,     \* number of "Completed with Errors" reports shown
    row_log,      \* per processed row: its label, the step its try block left at,
                  \* the rates its shipment came back with and the rate id chosen
    f_rows,       \* show_fulfillment_window: its argument rows
    f_creds,      \* its arguments mp_email and mp_api_key
    btn_update,   \* state of its btn_update: "normal" or "disabled"
    f_click,      \* what the last press of btn_update did: "", "refused", "started"
    workers       \* the threads _do_update has started, in order: per thread its
                  \* position, its locals and the PUT calls it has issued

vars == <<rules, sort_mode, defaults, loaded, index, data, mask, call, pc, order, pos,
          bought_ids, errors, mp_rows, api_log, outcome, build_called,
          doc_written, fulfil_shown, reported, row_log, key, buttons, cache, lpc,
          shipment_ids, li, pdf_blobs, out_doc, status_log, fetch_log,
          f_rows, f_creds, btn_update, f_click, workers>>

fulfilVars == <<f_rows, f_creds, btn_update, f_click, workers>>

labelVars == <<cache, lpc, shipment_ids, li, pdf_blobs, out_doc, status_log, fetch_log>>

uiVars == <<rules, sort_mode, defaults, loaded, index, data, mask, call>>

batchVars == <<pc, order, pos, bought_ids, errors, mp_rows, api_log, outcome,
               build_called, doc_written, fulfil_shown, reported, row_log, key>>

(***************************************************************************)
(* Bounds                                                                  *)
(***************************************************************************)
MaxRules == 2      \* longest rule list the settings tab is driven to
NRows == 2         \* most rows of a loaded export

(***************************************************************************)
(* Python values and conversions                                           *)
(***************************************************************************)
\* A number is an int or a float, kept in tenths: 1 is PyInt(1), 3.5 is PyFloat(35).
PyInt(n) == [ty |-> "int", t |-> 10 * n]
PyFloat(t) == [ty |-> "float", t |-> t]

Digit(d) == CASE d = 0 -> "0" [] d = 1 -> "1" [] d = 2 -> "2" [] d = 3 -> "3"
              [] d = 4 -> "4" [] d = 5 -> "5" [] d = 6 -> "6" [] d = 7 -> "7"
              [] d = 8 -> "8" [] d = 9 -> "9"

RECURSIVE NatStr(_)
NatStr(n) == IF n < 10 THEN Digit(n) ELSE NatStr(n \div 10) \o Digit(n % 10)

\* str(x) of a non-negative int or float: str(1) = "1", str(1.0) = "1.0"
PyStr(x) == IF x.ty = "int" THEN NatStr(x.t \div 10)
            ELSE NatStr(x.t \div 10) \o "." \o Digit(x.t % 10)

\* A key a dict lacks, and the value None (null in a JSON payload)
Absent == "<absent>"
None == "<None>"

\* str(bool(b))
BoolStr(b) == IF b THEN "True" ELSE "False"

\* s.strip() on the strings that occur
Strip(s) == CASE s = " PACKAGE " -> "PACKAGE"
              [] s = " 6 " -> "6"
              [] s = " " -> ""
              [] OTHER -> s

\* s.lower() on the strings that occur
Lower(s) == CASE s \in {"Package", "PACKAGE", "package"} -> "package"
              [] s \in {"Letter", "LETTER", "letter"} -> "letter"
              [] s \in {"Flat", "flat"} -> "flat"
              [] s \in {"ENVELOPE", "Envelope", "envelope"} -> "envelope"
              [] s \in {"Parcel", "parcel"} -> "parcel"
              [] s \in {"Amy", "amy"} -> "amy"
              [] s \in {"Bob", "bob"} -> "bob"
              [] OTHER -> s

\* s.upper() on the strings that occur
Upper(s) == CASE s \in {"Platform", "PLATFORM"} -> "PLATFORM"
              [] s \in {"usps", "USPS"} -> "USPS"
              [] s \in {"ups", "UPS"} -> "UPS"
              [] s \in {"First", "FIRST", "first"} -> "FIRST"
              [] s \in {"Ground", "GROUND"} -> "GROUND"
              [] s \in {"FedEx", "FEDEX"} -> "FEDEX"
              [] s \in {"GroundAdvantage", "GROUNDADVANTAGE"} -> "GROUNDADVANTAGE"
              [] OTHER -> s

\* The numbers whose literals occur as strings in the model
Literals == {PyInt(n) : n \in 0..9} \cup {PyFloat(t) : t \in {0, 10, 20, 35, 40, 60}}

\* The literal of each of these numbers, and the value (in tenths) it denotes
FloatOfLiteral ==
    [s \in {PyStr(x) : x \in Literals} |->
        (CHOOSE x \in Literals : PyStr(x) = s).t]

\* float(s): {the value in tenths}, or {} where float() raises ValueError
ParseFloat(s) ==
    CASE s = "-1" -> {-10}
      [] s = "1e12" -> {10000000}
      [] s \in DOMAIN FloatOfLiteral -> {FloatOfLiteral[s]}
      [] OTHER -> {}

(***************************************************************************)
(* Rules                                                                   *)
(***************************************************************************)
Rule(mi, wt, m, pp) ==
    [max_items |-> mi, weight_oz |-> wt, machinable |-> m, predefined_package |-> pp]

DEFAULT_RULES ==
    << Rule(7, PyInt(1), TRUE, "Letter"),
       Rule(14, PyInt(2), TRUE, "Letter"),
       Rule(36, PyFloat(35), FALSE, "Letter"),
       Rule(80, PyInt(6), TRUE, "Flat"),
       Rule(9999, PyInt(1), TRUE, "Package") >>

\* What the user can type into the rule dialog (v_max, v_wt, v_mach, v_pkg)
RuleDialogInputs ==
    { [v_max |-> 1, v_wt |-> PyFloat(10), v_mach |-> TRUE,  v_pkg |-> "Letter"],
      [v_max |-> 2, v_wt |-> PyFloat(20), v_mach |-> FALSE, v_pkg |-> "Letter"],
      [v_max |-> 2, v_wt |-> PyFloat(10), v_mach |-> TRUE,  v_pkg |-> " PACKAGE "],
      [v_max |-> 2, v_wt |-> PyFloat(20), v_mach |-> TRUE,  v_pkg |-> " "] }

\* on_ok: the rule built from the dialog's fields
NewRule(inp) == Rule(inp.v_max, inp.v_wt, inp.v_mach, Strip(inp.v_pkg))

\* list.sort / sorted(key=max_items): stable, so insertion after the last
\* element whose key is not greater
RECURSIVE InsertSorted(_, _)
InsertSorted(s, r) ==
    IF s = <<>> THEN <<r>>
    ELSE IF s[Len(s)].max_items <= r.max_items THEN Append(s, r)
    ELSE Append(InsertSorted(SubSeq(s, 1, Len(s) - 1), r), s[Len(s)])

RECURSIVE SortStable(_)
SortStable(s) ==
    IF s = <<>> THEN <<>>
    ELSE InsertSorted(SortStable(SubSeq(s, 1, Len(s) - 1)), s[Len(s)])

\* load_config: an empty rule list falls back to the defaults, any other is sorted
LoadConfigRules(raw) == IF Len(raw) = 0 THEN DEFAULT_RULES ELSE SortStable(raw)

RECURSIVE SeqsUpTo(_, _)
SeqsUpTo(S, n) ==
    IF n = 0 THEN {<<>>}
    ELSE LET shorter == SeqsUpTo(S, n - 1)
         IN  shorter \cup {Append(s, x) : s \in {t \in shorter : Len(t) = n - 1}, x \in S}

\* The rule lists a config file on disk can hold
RawRuleLists == SeqsUpTo({NewRule(i) : i \in RuleDialogInputs}, MaxRules) \ {<<>>}

(***************************************************************************)
(* Classification: apply_rules_and_package_logic                           *)
(***************************************************************************)
\* The columns of one row of self.data that the core reads and writes
BlankParcel(name, order_id) ==
    [name |-> name, length |-> "", width |-> "", height |-> "",
     predefined_package |-> "", weight |-> "", machinable |-> "",
     service |-> "", carrier |-> "", order_id |-> order_id]

\* A sentinel test that tells the letter cases apart
want_pkg_exact(rule) == Strip(rule.predefined_package) = "package"

\* want_pkg of _apply_letter_rule
want_pkg(rule) == Lower(Strip(rule.predefined_package)) = "package"

\* _apply_letter_rule, want_pkg: the columns of a row promoted to a package
PackageFields(row) ==
    [row EXCEPT !.predefined_package = "", !.length = "", !.width = "",
                !.height = "", !.weight = "", !.machinable = ""]

\* A letter branch that leaves options.machinable alone
LetterFieldsNoMachinable(row, rule) ==
    [row EXCEPT !.weight = PyStr(rule.weight_oz),
                !.predefined_package = rule.predefined_package,
                !.length = "", !.width = "", !.height = ""]

\* _apply_letter_rule, otherwise: the columns of a row the rule makes a letter
LetterFields(row, rule) ==
    [row EXCEPT !.weight = PyStr(rule.weight_oz),
                !.machinable = BoolStr(rule.machinable),
                !.predefined_package = rule.predefined_package,
                !.length = "", !.width = "", !.height = ""]

\* _apply_letter_rule(hit_idx, rule), rule being rules[k]; st carries the
\* locals pkg_mask and remaining_letter, self.data and the applications made

_apply_letter_rule(st, hit, rule, k) ==
    IF want_pkg(rule)
    THEN [st EXCEPT
            !.pkg_mask = [r \in DOMAIN @ |-> IF r \in hit THEN TRUE ELSE @[r]],
            !.data = [r \in DOMAIN @ |->
                        IF r \in hit THEN PackageFields(@[r]) ELSE @[r]],
            !.applied = [r \in DOMAIN @ |-> IF r \in hit THEN k ELSE @[r]]]
    ELSE [st EXCEPT
            !.data = [r \in DOMAIN @ |->
                        IF r \in hit THEN LetterFields(@[r], rule) ELSE @[r]],
            !.applied = [r \in DOMAIN @ |-> IF r \in hit THEN k ELSE @[r]]]

\* for r in rules: the loop body for rules[k], then the rest of the loop
RECURSIVE ScanRules(_, _, _, _)
ScanRules(st, rs, card_count, k) ==
    IF k > Len(rs) THEN st
    ELSE LET threshold == rs[k].max_items
             hit == {r \in st.remaining_letter : card_count[r] <= threshold}
         IN  IF hit = {}
             THEN ScanRules(st, rs, card_count, k + 1)
             ELSE ScanRules(
                    [_apply_letter_rule(st, hit, rs[k], k)
                        EXCEPT !.remaining_letter = @ \ hit],
                    rs, card_count, k + 1)

\* Rules consulted for every row, hinted or not
AllRows(labels, pkg_mask) == labels

\* remaining_letter = ~pkg_mask: the rows the rules are consulted for
LetterRows(labels, pkg_mask) == {r \in labels : ~pkg_mask[r]}

\* apply_rules_and_package_logic(card_count_series, is_package_mask) on the
\* freshly built self.data `rows`; yields self.data, self._is_package_mask and
\* the rule index handed to _apply_letter_rule for each row (0: none)
apply_rules_and_package_logic(rs, rows, card_count, is_package_mask) ==
    LET labels == DOMAIN rows
        st0 == [pkg_mask |-> is_package_mask,
                remaining_letter |-> LetterRows(labels, is_package_mask),
                data |-> [r \in labels |->
                            [rows[r] EXCEPT !.length = "", !.width = "", !.height = "",
                                            !.predefined_package = "", !.weight = "",
                                            !.machinable = ""]],
                applied |-> [r \in labels |-> 0]]
        st1 == ScanRules(st0, rs, card_count, 1)
        st2 == IF st1.remaining_letter # {} /\ Len(rs) > 0
               THEN _apply_letter_rule(st1, st1.remaining_letter, rs[Len(rs)], Len(rs))
               ELSE st1
    IN  [st2 EXCEPT
            !.data = [r \in labels |->
                        IF st2.pkg_mask[r]
                        THEN [@[r] EXCEPT !.predefined_package = "", !.length = "",
                                          !.width = "", !.height = "", !.weight = ""]
                        ELSE @[r]]]

\* DEFAULT_CONFIG["defaults"]
default_carrier == "USPS"
default_service == "First"
DefaultConfig == [carrier |-> default_carrier, service |-> default_service]

\* config["defaults"]: the carrier and service a configuration file can
\* set, or leave out
ConfigDefaults ==
    { DefaultConfig,
      [carrier |-> "usps",  service |-> "first"],
      [carrier |-> "",      service |-> "First"],
      [carrier |-> "USPS",  service |-> ""],
      [carrier |-> "FedEx", service |-> "Ground"],
      [carrier |-> Absent,  service |-> Absent] }

\* dflts.get(k, default)
ConfigGet(dflts, k, default) == IF dflts[k] = Absent THEN default ELSE dflts[k]

\* _apply_service_per_row with self._is_package_mask None: one service for all
_apply_service_unmasked(d, m, dflts) ==
    [r \in DOMAIN d |->
        [d[r] EXCEPT !.service = ConfigGet(dflts, "service", "First")]]

\* _apply_service_per_row, self._is_package_mask being set
package_service == "GroundAdvantage"

_apply_service_per_row(d, m, dflts) ==
    [r \in DOMAIN d |->
        [d[r] EXCEPT !.service = IF m[r] THEN package_service
                                 ELSE ConfigGet(dflts, "service", "First")]]

(***************************************************************************)
(* Sort modes: _apply_sort_mode_to_dataframe                               *)
(***************************************************************************)
SortModes == {"Platform", "A-Z", "Z-A"}

\* Code point order of the customer names that occur
StrRank(s) == CASE s = "Amy" -> 1 [] s = "Bob" -> 2 [] s = "amy" -> 3
                [] s = "bob" -> 4 [] OTHER -> 0

Perms(seq) ==
    {p \in [1..Len(seq) -> {seq[i] : i \in 1..Len(seq)}] :
        \A i, j \in 1..Len(seq) : i # j => p[i] # p[j]}

\* sort_key.sort_values(ascending).index, sort_key being the lower-cased name;
\* the default sort kind is not stable, equal keys come in any order
SortedIndexes(idx, d, ascending) ==
    {p \in Perms(idx) :
        \A i, j \in 1..Len(p) :
            i < j => IF ascending
                     THEN StrRank(Lower(d[p[i]].name)) <= StrRank(Lower(d[p[j]].name))
                     ELSE StrRank(Lower(d[p[i]].name)) >= StrRank(Lower(d[p[j]].name))}

\* A sort that puts the rows back into file order for any other mode
_apply_sort_mode_restoring(mode, idx, d) ==
    IF Upper(mode) \in {"A-Z", "Z-A"}
    THEN SortedIndexes(idx, d, Upper(mode) = "A-Z")
    ELSE {p \in Perms(idx) : \A i, j \in 1..Len(p) : i < j => p[i] < p[j]}

\* The row orders _apply_sort_mode_to_dataframe can leave
_apply_sort_mode_to_dataframe(mode, idx, d) ==
    IF Upper(mode) \in {"A-Z", "Z-A"}
    THEN SortedIndexes(idx, d, Upper(mode) = "A-Z")
    ELSE {idx}

(***************************************************************************)
(* Shipment payload: _mk_parcel                                            *)
(***************************************************************************)
\* _f_or_none(v): {float} or {} for None
_f_or_none(v) == IF Strip(v) = "" THEN {} ELSE ParseFloat(Strip(v))

\* _mk_parcel(row): the parcel dict as a function from its keys
_mk_parcel(row) ==
    LET predef == Strip(row.predefined_package)
        wt == _f_or_none(row.weight)
        keyed(k, v) == IF v = {} THEN {} ELSE {<<k, CHOOSE x \in v : TRUE>>}
        pairs == IF predef # ""
                 THEN {<<"predefined_package", predef>>} \cup keyed("weight", wt)
                 ELSE keyed("length", _f_or_none(row.length))
                      \cup keyed("width", _f_or_none(row.width))
                      \cup keyed("height", _f_or_none(row.height))
                      \cup keyed("weight", wt)
    IN  [k \in {q[1] : q \in pairs} |-> (CHOOSE q \in pairs : q[1] = k)[2]]

\* _is_package_row(idx), self._is_package_mask being set
_is_package_row(idx) == mask[idx]

\* A dimension test that finds every row complete
_row_needs_dims_never(idx) == FALSE

\* _row_needs_dims(idx)
_row_needs_dims(idx) ==
    /\ mask[idx]
    /\ _is_package_row(idx)
    /\ \E v \in {data[idx].length, data[idx].width, data[idx].height, data[idx].weight} :
          \/ Strip(v) = ""
          \/ ParseFloat(Strip(v)) = {}
          \/ \E t \in ParseFloat(Strip(v)) : t <= 0

\* _packages_missing_count()
_packages_missing_count ==
    IF ~loaded THEN 0 ELSE Cardinality({r \in DOMAIN data : _row_needs_dims(r)})

\* The three buttons as CSVConverterApp.__init__ creates them
ButtonsAtStart == [load |-> "normal", save |-> "disabled", buy |-> "disabled"]

\* The three buttons as buy_labels_and_build_pdf sets them before its loop
ButtonsDisabled == [load |-> "disabled", save |-> "disabled", buy |-> "disabled"]

\* A recomputation that leaves the buttons as they are
_update_save_state_keep(b, missing, n) == b

\* _update_save_state() on buttons b, with `missing` package rows lacking
\* dimensions among n rows
_update_save_state(b, missing, n) ==
    [b EXCEPT !.save = IF missing > 0 THEN "disabled" ELSE "normal",
              !.buy = IF missing > 0 \/ n = 0 THEN "disabled" ELSE "normal"]

(***************************************************************************)
(* The converter window                                                    *)
(***************************************************************************)
\* `call` after a handler that does not classify
NoCall == [op |-> "", card_count |-> <<>>, is_package |-> <<>>, applied |-> <<>>]

\* _rule_dialog.on_ok, current is None (Add Rule)
AddRule(inp) ==
    /\ pc = "idle"
    /\ Len(rules) < MaxRules
    /\ rules' = SortStable(Append(rules, NewRule(inp)))
    /\ call' = NoCall
    /\ UNCHANGED <<sort_mode, loaded, index, data, mask, buttons>>
    /\ UNCHANGED <<defaults, batchVars, labelVars, fulfilVars>>

\* _rule_dialog.on_ok, current = rules[i] (Edit Selected)
EditRule(i, inp) ==
    /\ pc = "idle"
    /\ i \in 1..Len(rules)
    /\ rules' = SortStable([rules EXCEPT ![i] = NewRule(inp)])
    /\ call' = NoCall
    /\ UNCHANGED <<sort_mode, loaded, index, data, mask, buttons>>
    /\ UNCHANGED <<defaults, batchVars, labelVars, fulfilVars>>

\* _delete_selected_rule
DeleteRule(i) ==
    /\ pc = "idle"
    /\ i \in 1..Len(rules)
    /\ rules' = SubSeq(rules, 1, i - 1) \o SubSeq(rules, i + 1, Len(rules))
    /\ call' = NoCall
    /\ UNCHANGED <<sort_mode, loaded, index, data, mask, buttons>>
    /\ UNCHANGED <<defaults, batchVars, labelVars, fulfilVars>>

\* _move_rule(direction)
_move_rule(rs, i, direction) ==
    [rs EXCEPT ![i] = rs[i + direction], ![i + direction] = rs[i]]

MoveRule(i, direction) ==
    /\ pc = "idle"
    /\ i \in 1..Len(rules)
    /\ i + direction \in 1..Len(rules)
    /\ rules' = _move_rule(rules, i, direction)
    /\ call' = NoCall
    /\ UNCHANGED <<sort_mode, loaded, index, data, mask, buttons>>
    /\ UNCHANGED <<defaults, batchVars, labelVars, fulfilVars>>

\* The rows an export can hold: customer name, item count, package hint of the
\* importer, marketplace order id
ExportRow(nm, n, hint, oid) ==
    [name |-> nm, item_count |-> n, is_package |-> hint, order_id |-> oid]

ExportRows ==
    { ExportRow("amy", 0, FALSE, ""),
      ExportRow("Bob", 2, FALSE, "mp-1"),
      ExportRow("amy", 3, FALSE, "mp-2"),
      ExportRow("Bob", 0, TRUE, "") }

\* The exports: row labels 1..n in file order
Exports == UNION {[1..n -> ExportRows] : n \in 1..NRows}

\* load_csv on export `csv`: what self.data, self._is_package_mask and the row
\* order become under rule list rs and sort mode `mode`
load_csv(rs, mode, dflts, csv) ==
    LET labels == DOMAIN csv
        rows == [r \in labels |-> BlankParcel(csv[r].name, csv[r].order_id)]
        card_count == [r \in labels |-> csv[r].item_count]
        is_package == [r \in labels |-> csv[r].is_package]
        cl == apply_rules_and_package_logic(rs, rows, card_count, is_package)
        assigned == [r \in labels |->
                        [cl.data[r] EXCEPT !.carrier = ConfigGet(dflts, "carrier", "USPS")]]
        d == _apply_service_per_row(assigned, cl.pkg_mask, dflts)
    IN  [data |-> d, mask |-> cl.pkg_mask,
         indexes |-> _apply_sort_mode_to_dataframe(mode, [i \in labels |-> i], d),
         call |-> [op |-> "load_csv", card_count |-> card_count,
                   is_package |-> is_package, applied |-> cl.applied]]

\* An import that classifies under the first-start rules when none are left
LoadCsvDefaultRules(csv) ==
    /\ pc = "idle"
    /\ LET res == load_csv(IF rules = <<>> THEN DEFAULT_RULES ELSE rules,
                           sort_mode, defaults, csv)
       IN  /\ data' = res.data
           /\ mask' = res.mask
           /\ index' \in res.indexes
           /\ call' = res.call
    /\ loaded' = TRUE
    /\ UNCHANGED <<rules, sort_mode>>
    /\ UNCHANGED <<defaults, batchVars, labelVars, fulfilVars>>
    /\ buttons' = _update_save_state(buttons, _packages_missing_count', Len(index'))

\* load_csv, the part that sets self.data, the mask and the row order
LoadCsv(csv) ==
    /\ pc = "idle"
    /\ LET res == load_csv(rules, sort_mode, defaults, csv)
       IN  /\ data' = res.data
           /\ mask' = res.mask
           /\ index' \in res.indexes
           /\ call' = res.call
    /\ loaded' = TRUE
    /\ UNCHANGED <<rules, sort_mode>>
    /\ UNCHANGED <<defaults, batchVars, labelVars, fulfilVars>>
    /\ buttons' = _update_save_state(buttons, _packages_missing_count', Len(index'))

\* _on_sort_mode_changed
SortModeChanged(mode) ==
    /\ pc = "idle"
    /\ sort_mode' = mode
    /\ IF loaded /\ Len(index) > 0
       THEN index' \in _apply_sort_mode_to_dataframe(mode, index, data)
       ELSE index' = index
    /\ call' = NoCall
    /\ UNCHANGED <<rules, loaded, data, mask>>
    /\ UNCHANGED <<defaults, batchVars, labelVars, fulfilVars>>
    /\ buttons' = IF loaded /\ Len(index) > 0
                  THEN _update_save_state(buttons, _packages_missing_count', Len(index'))
                  ELSE buttons

\* What the user can type into a dimension or weight field of the row dialogs
DimInputs == {" 6 ", "0", "abc"}

\* _pos(s)
_pos(s) == \E t \in ParseFloat(Strip(s)) : t > 0

\* _edit_row_by_index(idx).on_ok of the package dialog
EditPackageRow(idx, vL, vW, vH, vWt) ==
    /\ pc = "idle"
    /\ loaded
    /\ idx \in DOMAIN data
    /\ _is_package_row(idx)
    /\ _pos(vL) /\ _pos(vW) /\ _pos(vH) /\ _pos(vWt)
    /\ data' = [data EXCEPT ![idx].length = Strip(vL), ![idx].width = Strip(vW),
                            ![idx].height = Strip(vH), ![idx].weight = Strip(vWt)]
    /\ call' = NoCall
    /\ UNCHANGED <<rules, sort_mode, loaded, index, mask>>
    /\ UNCHANGED <<defaults, batchVars, labelVars, fulfilVars>>
    /\ buttons' = _update_save_state(buttons, _packages_missing_count', Len(index'))

\* _edit_row_by_index(idx).on_ok of the letter dialog
EditLetterRow(idx, vWt, vMach) ==
    /\ pc = "idle"
    /\ loaded
    /\ idx \in DOMAIN data
    /\ ~_is_package_row(idx)
    /\ _pos(vWt)
    /\ data' = [data EXCEPT ![idx].weight = Strip(vWt),
                            ![idx].machinable = IF vMach THEN "True" ELSE "False"]
    /\ call' = NoCall
    /\ UNCHANGED <<rules, sort_mode, loaded, index, mask>>
    /\ UNCHANGED <<defaults, batchVars, labelVars, fulfilVars>>
    /\ buttons' = _update_save_state(buttons, _packages_missing_count', Len(index'))

BatchIdle ==
    /\ pc = "idle" /\ order = <<>> /\ pos = 0 /\ bought_ids = <<>> /\ errors = <<>>
    /\ mp_rows = <<>> /\ api_log = <<>> /\ outcome = "" /\ build_called = FALSE
    /\ doc_written = FALSE /\ fulfil_shown = FALSE /\ reported = 0
    /\ row_log = <<>> /\ key = ""
    /\ buttons = IF loaded
                 THEN _update_save_state(ButtonsAtStart, _packages_missing_count,
                                         Len(index))
                 ELSE ButtonsAtStart

\* No label build has run and the label cache is empty
\* No fulfillment window is open
FulfilIdle ==
    /\ f_rows = <<>> /\ f_creds = [email |-> "", api_key |-> ""]
    /\ btn_update = "normal" /\ f_click = "" /\ workers = <<>>

LabelsIdle ==
    /\ cache = {} /\ lpc = "idle" /\ shipment_ids = <<>> /\ li = 0
    /\ pdf_blobs = <<>> /\ out_doc = <<>> /\ status_log = <<>> /\ fetch_log = <<>>

\* CSVConverterApp.__init__: the configuration is loaded, nothing is imported
Init ==
    /\ rules \in {LoadConfigRules(raw) : raw \in RawRuleLists}
    /\ sort_mode = "Platform"
    /\ defaults = DefaultConfig
    /\ loaded = FALSE
    /\ index = <<>>
    /\ data = <<>>
    /\ mask = <<>>
    /\ call = NoCall
    /\ BatchIdle
    /\ FulfilIdle
    /\ LabelsIdle

\* Settings tab and import: the rule list is edited, exports are loaded
Next ==
    \/ \E inp \in RuleDialogInputs : AddRule(inp)
    \/ \E i \in 1..MaxRules, inp \in RuleDialogInputs : EditRule(i, inp)
    \/ \E i \in 1..MaxRules : DeleteRule(i)
    \/ \E i \in 1..MaxRules, direction \in {-1, 1} : MoveRule(i, direction)
    \/ \E csv \in Exports : LoadCsv(csv)

Spec == Init /\ [][Next]_vars

\* The rule lists the settings tab can leave behind
SettingsRuleLists == SeqsUpTo({NewRule(i) : i \in RuleDialogInputs}, MaxRules)

\* Convert tab: under any rule list the settings tab can leave, exports are
\* loaded, sorted and their rows edited
InitConvert ==
    /\ rules \in SettingsRuleLists
    /\ sort_mode = "Platform"
    /\ defaults = DefaultConfig
    /\ loaded = FALSE
    /\ index = <<>>
    /\ data = <<>>
    /\ mask = <<>>
    /\ call = NoCall
    /\ BatchIdle
    /\ FulfilIdle
    /\ LabelsIdle

NextConvert ==
    \/ \E csv \in Exports : LoadCsv(csv)
    \/ \E mode \in SortModes : SortModeChanged(mode)
    \/ \E idx \in 1..NRows, vL, vW, vH, vWt \in DimInputs :
          EditPackageRow(idx, vL, vW, vH, vWt)
    \/ \E idx \in 1..NRows, vWt \in DimInputs, vMach \in BOOLEAN :
          EditLetterRow(idx, vWt, vMach)

SpecConvert == InitConvert /\ [][NextConvert]_vars

\* Service assignment: exports are loaded under the first-start rules and
\* every configured carrier and service
InitService ==
    /\ rules = LoadConfigRules(<<>>)
    /\ sort_mode = "Platform"
    /\ defaults \in ConfigDefaults
    /\ loaded = FALSE
    /\ index = <<>>
    /\ data = <<>>
    /\ mask = <<>>
    /\ call = NoCall
    /\ BatchIdle
    /\ FulfilIdle
    /\ LabelsIdle

NextService == \E csv \in Exports : LoadCsv(csv)

SpecService == InitService /\ [][NextService]_vars

\* Classification alone: under any rule list the settings tab can leave,
\* exports are loaded
NextClassify == \E csv \in Exports : LoadCsv(csv)

SpecClassify == InitConvert /\ [][NextClassify]_vars

(***************************************************************************)
(* Purchase batch: buy_labels_and_build_pdf                                *)
(***************************************************************************)
Quote(c, sv, price, id) == [carrier |-> c, service |-> sv, rate |-> price, id |-> id]

\* Rate lists a created shipment can come back with
RateLists ==
    { <<>>,
      << Quote("USPS", "First", "3.5", "r1"), Quote("UPS", "Ground", "4.0", "r2") >> }

\* The "rate" entry of a quote that has none
NoRate == "<no rate>"

\* r.get("rate", "1e12"): the sort key of a quote before float()
rate_key(r) == IF r.rate = NoRate THEN "1e12" ELSE r.rate

\* A match that compares carrier and service as they are spelled
MatchedRateExact(rates, want_carrier, want_service) ==
    LET hits == {i \in 1..Len(rates) :
                    /\ rates[i].carrier = want_carrier
                    /\ rates[i].service = want_service}
    IN  IF want_carrier # "" /\ want_service # "" /\ hits # {}
        THEN {rates[CHOOSE i \in hits : \A j \in hits : i <= j].id}
        ELSE {}

\* The first quote of the list matching the desired pair, as a set
MatchedRate(rates, want_carrier, want_service) ==
    LET hits == {i \in 1..Len(rates) :
                    /\ Upper(rates[i].carrier) = Upper(want_carrier)
                    /\ Upper(rates[i].service) = Upper(want_service)}
    IN  IF want_carrier # "" /\ want_service # "" /\ hits # {}
        THEN {rates[CHOOSE i \in hits : \A j \in hits : i <= j].id}
        ELSE {}

\* sorted(rates, key=float(rate))[0]["id"]; float() raising on any quote makes
\* the code take rates[0]["id"]
CheapestRate(rates) ==
    IF \E i \in 1..Len(rates) : ParseFloat(rate_key(rates[i])) = {}
    THEN rates[1].id
    ELSE LET price(i) == CHOOSE t \in ParseFloat(rate_key(rates[i])) : TRUE
             best == CHOOSE i \in 1..Len(rates) :
                        \A j \in 1..Len(rates) :
                            \/ price(i) < price(j)
                            \/ price(i) = price(j) /\ i <= j
         IN  rates[best].id

\* A selection that hands on None where no rate could be chosen
SelectRateUnchecked(rates, want_carrier, want_service) ==
    LET m == MatchedRate(rates, want_carrier, want_service)
    IN  IF m # {} /\ m # {""} THEN m
        ELSE IF Len(rates) > 0 THEN {CheapestRate(rates)} ELSE {"None"}

\* Rate selection of one row: {chosen_rate_id}, or {} when none is chosen
SelectRate(rates, want_carrier, want_service) ==
    LET m == MatchedRate(rates, want_carrier, want_service)
    IN  IF m # {} /\ m # {""} THEN m
        ELSE IF Len(rates) > 0
             THEN IF CheapestRate(rates) # "" THEN {CheapestRate(rates)} ELSE {}
             ELSE {}

\* The id the carrier gives the shipment created for row idx
ShipmentId(idx) == "shp_" \o NatStr(idx)

\* What the carrier and the host do while one row is processed
RowEnvs ==
    {[create_ok |-> FALSE, rates |-> <<>>, buy_ok |-> FALSE, post_ok |-> FALSE]}
    \cup [create_ok : {TRUE}, rates : RateLists \ {<<>>}, buy_ok : {TRUE}, post_ok : BOOLEAN]
    \cup [create_ok : {TRUE}, rates : RateLists, buy_ok : {FALSE}, post_ok : {FALSE}]

\* A handler that swallows the row's exception without recording it
RecordErrorDropped(errs, idx, msg) == errs

\* errors.append((idx, err_msg)) of the row's except block
RecordError(errs, idx, msg) == Append(errs, <<idx, msg>>)

\* bought_ids.append(bought_sid)
RecordPurchase(ids, sid) == Append(ids, sid)

\* A loop that a failed row ends
LoopAbortOnError(p, failed) == IF failed THEN Len(order) + 1 ELSE p + 1

\* for idx in order: the position after the row at position p, failed or not
LoopAdvance(p, failed) == p + 1

\* The keyring entries get_saved_api_key can find (None read as "")
SavedKeys == {"", " ", "EZAK1"}

\* get_saved_api_key(): (val or "").strip()
get_saved_api_key(val) == Strip(val)

\* A key test that lets every key pass
KeyPresentAlways(k) == TRUE

\* `if not key` fails: the key read is not empty
KeyPresent(k) == k # ""

\* buy_labels_and_build_pdf up to the loop: the early returns, then the locals.
\* pdf_path is what the Save As dialog returns, saved the keyring entry.
BuyStart(pdf_path, saved) ==
    /\ pc = "idle"
    /\ LET k == get_saved_api_key(saved)
           refusal == IF ~loaded \/ Len(index) = 0 THEN "no_data"
                      ELSE IF _packages_missing_count > 0 THEN "cannot_buy"
                      ELSE IF pdf_path = "" THEN "cancelled"
                      ELSE IF ~KeyPresent(k) THEN "missing_key"
                      ELSE ""
       IN  /\ outcome' = refusal
           /\ key' = IF refusal \in {"", "missing_key"} THEN k ELSE ""
           /\ pc' = IF refusal = "" THEN "loop" ELSE "idle"
           /\ order' = IF refusal = "" THEN index ELSE <<>>
           /\ pos' = IF refusal = "" THEN 1 ELSE 0
           /\ buttons' = IF refusal = "" THEN ButtonsDisabled ELSE buttons
    /\ bought_ids' = <<>>
    /\ errors' = <<>>
    /\ mp_rows' = <<>>
    /\ api_log' = <<>>
    /\ build_called' = FALSE
    /\ doc_written' = FALSE
    /\ fulfil_shown' = FALSE
    /\ reported' = 0
    /\ row_log' = <<>>
    /\ UNCHANGED <<uiVars, labelVars, fulfilVars>>

\* One iteration of `for idx in order`
BuyRow(env) ==
    /\ pc = "loop"
    /\ pos <= Len(order)
    /\ LET idx == order[pos]
           row == data[idx]
           want_carrier == Strip(row.carrier)
           want_service == Strip(row.service)
           chosen == SelectRate(env.rates, want_carrier, want_service)
           chosen_rate_id == CHOOSE c \in chosen : TRUE
           used == {i \in 1..Len(env.rates) : env.rates[i].id = chosen_rate_id}
           carrier_used == IF used = {} THEN want_carrier
                           ELSE Strip(env.rates[CHOOSE i \in used :
                                                  \A j \in used : i <= j].carrier)
           create == <<"create", idx, _mk_parcel(row)>>
           step == IF ~env.create_ok THEN "create"
                   ELSE IF chosen = {} THEN "rates"
                   ELSE IF ~env.buy_ok THEN "buy"
                   ELSE IF ~env.post_ok THEN "post"
                   ELSE "done"
       IN  /\ row_log' = Append(row_log, [idx |-> idx, step |-> step,
                                           rates |-> IF env.create_ok THEN env.rates
                                                     ELSE <<>>,
                                           chosen |-> IF env.create_ok THEN chosen
                                                      ELSE {}])
           /\ pos' = LoopAdvance(pos, step # "done")
           /\ api_log' = IF step \in {"create", "rates"}
                         THEN Append(api_log, create)
                         ELSE api_log \o <<create, <<"buy", idx, chosen_rate_id>> >>
           /\ bought_ids' = IF step \in {"post", "done"}
                            THEN RecordPurchase(bought_ids, ShipmentId(idx))
                            ELSE bought_ids
           /\ errors' =
                CASE step = "create" -> RecordError(errors, idx, "InvalidRequestError: create")
                  [] step = "rates" ->
                        RecordError(errors, idx, "RuntimeError: No rates available for shipment.")
                  [] step = "buy" -> RecordError(errors, idx, "InvalidRequestError: buy")
                  [] step = "post" -> RecordError(errors, idx, "AttributeError: tracker")
                  [] OTHER -> errors
           /\ mp_rows' =
                IF step = "done" /\ Strip(row.order_id) # ""
                THEN Append(mp_rows,
                            [mp_order_id |-> Strip(row.order_id),
                             customer_name |-> row.name,
                             tracking_company |-> carrier_used,
                             shipment |-> ShipmentId(idx)])
                ELSE mp_rows
    /\ UNCHANGED <<pc, order, outcome, build_called, doc_written, fulfil_shown, reported,
                   key>>
    /\ UNCHANGED <<uiVars, buttons, labelVars, fulfilVars>>

\* The loop's end without the `if not bought_ids` return
AfterLoopAlwaysBuild ==
    /\ pc = "loop"
    /\ pos > Len(order)
    /\ pc' = "build"
    /\ UNCHANGED <<order, pos, bought_ids, errors, mp_rows, api_log, build_called,
                   doc_written, fulfil_shown, reported, row_log, outcome, key>>
    /\ UNCHANGED <<uiVars, buttons, labelVars, fulfilVars>>

\* `if not bought_ids: ... return` after the loop
AfterLoop ==
    /\ pc = "loop"
    /\ pos > Len(order)
    /\ IF bought_ids = <<>>
       THEN pc' = "finally" /\ outcome' = "fatal"
       ELSE pc' = "build" /\ UNCHANGED outcome
    /\ UNCHANGED <<order, pos, bought_ids, errors, mp_rows, api_log, build_called,
                   doc_written, fulfil_shown, reported, row_log, key>>
    /\ UNCHANGED <<uiVars, buttons, labelVars, fulfilVars>>

\* build_pdf_from_shipments_multipage(...), then open_pdf, the fulfillment
\* window and the error report; a build that raises leaves through `finally`
BuildPdf(build_ok) ==
    /\ pc = "build"
    /\ build_called' = TRUE
    /\ pc' = "finally"
    /\ IF build_ok
       THEN /\ doc_written' = TRUE
            /\ fulfil_shown' = (mp_rows # <<>>)
            /\ reported' = IF errors # <<>> THEN reported + 1 ELSE reported
            /\ outcome' = "ok"
       ELSE /\ outcome' = "exception"
            /\ UNCHANGED <<doc_written, fulfil_shown, reported>>
    /\ UNCHANGED <<order, pos, bought_ids, errors, mp_rows, api_log, row_log, key>>
    /\ UNCHANGED <<uiVars, buttons, labelVars, fulfilVars>>

\* The `finally` block: the handler returns to the event loop
Finally ==
    /\ pc = "finally"
    /\ pc' = "idle"
    /\ buttons' = _update_save_state([buttons EXCEPT !.load = "normal", !.buy = "normal"],
                                     _packages_missing_count, Len(index))
    /\ UNCHANGED <<order, pos, bought_ids, errors, mp_rows, api_log, outcome,
                   build_called, doc_written, fulfil_shown, reported, row_log, key>>
    /\ UNCHANGED <<uiVars, labelVars, fulfilVars>>

\* The rows of the exports the batch is run on, under the default rules
BuyExportRows ==
    { ExportRow("amy", 5, FALSE, ""),
      ExportRow("Bob", 5, FALSE, "mp-1"),
      ExportRow("amy", 90, FALSE, "mp-2"),
      ExportRow("Bob", 5, TRUE, "") }

BuyExports == UNION {[1..n -> BuyExportRows] : n \in 1..NRows}

\* An export has been loaded under the configuration of a first start
InitBuy ==
    /\ rules = LoadConfigRules(<<>>)
    /\ sort_mode = "Platform"
    /\ defaults = DefaultConfig
    /\ loaded = TRUE
    /\ \E csv \in BuyExports :
          LET res == load_csv(rules, sort_mode, defaults, csv)
          IN  /\ data = res.data
              /\ mask = res.mask
              /\ index \in res.indexes
              /\ call = res.call
    /\ BatchIdle
    /\ FulfilIdle
    /\ LabelsIdle

NextBuy ==
    \/ \E idx \in 1..NRows, vL, vW, vH, vWt \in DimInputs :
          EditPackageRow(idx, vL, vW, vH, vWt)
    \/ \E pdf_path \in {"", "labels.pdf"}, saved \in SavedKeys : BuyStart(pdf_path, saved)
    \/ \E env \in RowEnvs : BuyRow(env)
    \/ AfterLoop
    \/ \E build_ok \in BOOLEAN : BuildPdf(build_ok)
    \/ Finally

SpecBuy == InitBuy /\ [][NextBuy]_vars

(***************************************************************************)
(* Rate selection: one order bought under every quote list                 *)
(***************************************************************************)
MaxQuotes == 2

\* Carrier, service and price of the quotes a shipment can come back with
QuoteKinds ==
    { [carrier |-> "USPS", service |-> "First",  rate |-> "3.5"],
      [carrier |-> "usps", service |-> "FIRST",  rate |-> "4.0"],
      [carrier |-> "UPS",  service |-> "Ground", rate |-> "2.0"],
      [carrier |-> "UPS",  service |-> "Ground", rate |-> "3.5"],
      [carrier |-> "UPS",  service |-> "Ground", rate |-> "abc"],
      [carrier |-> "UPS",  service |-> "Ground", rate |-> NoRate] }

\* shp.rates: up to MaxQuotes quotes, each with an id of its own
QuoteLists ==
    UNION {{[i \in 1..n |-> Quote(f[i].carrier, f[i].service, f[i].rate,
                                   "rate_" \o NatStr(i))] :
                f \in [1..n -> QuoteKinds]} : n \in 0..MaxQuotes}

\* Every call of the carrier and of the host succeeds
RateEnvs == [create_ok : {TRUE}, rates : QuoteLists, buy_ok : {TRUE}, post_ok : {TRUE}]

\* An export of one letter order has been loaded under the first-start rules
\* and the defaults dflts
InitRates ==
    /\ rules = LoadConfigRules(<<>>)
    /\ sort_mode = "Platform"
    /\ defaults \in ConfigDefaults
    /\ loaded = TRUE
    /\ LET res == load_csv(rules, sort_mode, defaults,
                           <<ExportRow("amy", 5, FALSE, "mp-1")>>)
       IN  /\ data = res.data
           /\ mask = res.mask
           /\ index \in res.indexes
           /\ call = res.call
    /\ BatchIdle
    /\ FulfilIdle
    /\ LabelsIdle

NextRates ==
    \/ BuyStart("labels.pdf", "EZAK1")
    \/ \E env \in RateEnvs : BuyRow(env)
    \/ AfterLoop
    \/ BuildPdf(TRUE)
    \/ Finally

SpecRates == InitRates /\ [][NextRates]_vars

(***************************************************************************)
(* Label cache and acquisition: fetch_lables.py                            *)
(***************************************************************************)
MaxIds == 2

\* The shipment ids a caller passes
ShipmentIds == {"shp_1", "shp_2", "shp_3"}

\* shipment_id.replace("/", "_")
SafeName(shipment_id) == CASE shipment_id = "shp/1" -> "shp_1"
                           [] OTHER -> shipment_id

\* cache_png_path(shipment_id)
cache_png_path(shipment_id) == "label_cache/" \o SafeName(shipment_id) \o ".png"

\* Label bytes: the shipment they picture and whether they begin with the
\* PNG signature
Label(sid, png) == [of |-> sid, png |-> png]

\* A cache lookup that never finds anything
try_load_cached_png_never(c, shipment_id) == {}

\* try_load_cached_png(shipment_id) on cache c: {data}, or {} for None
try_load_cached_png(c, shipment_id) ==
    {q[2] : q \in {r \in c : r[1] = cache_png_path(shipment_id) /\ r[2].png}}

\* save_cached_png(shipment_id, content_bytes) on cache c
save_cached_png(c, shipment_id, content_bytes) ==
    {r \in c : r[1] # cache_png_path(shipment_id)}
        \cup {<<cache_png_path(shipment_id), content_bytes>>}

\* parcel.predefined_package of the shipments at the carrier: a letter, a
\* package of the caller's own dimensions and an envelope
ShipmentParcel(sid) == CASE sid = "shp_1" -> "Letter"
                         [] sid = "shp_3" -> "ENVELOPE"
                         [] OTHER -> "Parcel"

\* The SDK methods fetch_or_cache_png_for_shipment tries, in its order
MethodNames == <<"generate_label", "label", "convert_label">>

\* A ladder that calls every method the client has, whatever came back
RECURSIVE TryMethodsAll(_, _)
TryMethodsAll(methods, k) ==
    IF k > 3 THEN [calls |-> <<>>, outcomes |-> <<>>, url |-> FALSE]
    ELSE LET rest == TryMethodsAll(methods, k + 1)
         IN  IF methods[k] = "absent" THEN rest
             ELSE [calls |-> <<<<"generate_label", "label", "convert_label">>[k]>> \o rest.calls,
                   outcomes |-> <<methods[k]>> \o rest.outcomes,
                   url |-> methods[k] = "url" \/ rest.url]

\* for name, func in try_methods, from method k on: the calls made, what
\* each came back with and whether one of them gave a png_url. methods[k]
\* tells what method k does: "absent" (no such attribute), "url", "nourl"
\* or "raise"
RECURSIVE TryMethods(_, _)
TryMethods(methods, k) ==
    IF k > Len(MethodNames) THEN [calls |-> <<>>, outcomes |-> <<>>, url |-> FALSE]
    ELSE IF methods[k] = "absent" THEN TryMethods(methods, k + 1)
    ELSE IF methods[k] = "url"
    THEN [calls |-> <<MethodNames[k]>>, outcomes |-> <<"url">>, url |-> TRUE]
    ELSE LET rest == TryMethods(methods, k + 1)
         IN  [calls |-> <<MethodNames[k]>> \o rest.calls,
              outcomes |-> <<methods[k]>> \o rest.outcomes, url |-> rest.url]

\* What a response of the label endpoint came back with
RestOutcome(ok, has_url) == IF ~ok THEN "rejected" ELSE IF has_url THEN "url" ELSE "nourl"

\* A fallback that sends the POST whatever the GET came back with
_fallback_rest_post_always(env) ==
    LET requests == <<"GET", "POST">>
        answers == <<RestOutcome(env.get_ok, env.rest_url),
                     RestOutcome(env.post_ok, env.rest_url)>>
    IN  IF ~env.post_ok
        THEN [calls |-> requests, outcomes |-> answers, error |-> "HTTPError"]
        ELSE IF ~env.rest_url
        THEN [calls |-> requests, outcomes |-> answers,
              error |-> "RuntimeError: no PNG URL"]
        ELSE IF ~env.download_ok
        THEN [calls |-> Append(requests, "download"),
              outcomes |-> Append(answers, "raise"), error |-> "HTTPError"]
        ELSE [calls |-> Append(requests, "download"),
              outcomes |-> Append(answers, "ok"), error |-> ""]

\* _fallback_generate_label_rest: the requests made, what each came back
\* with and the error raised ("" when the bytes were downloaded)
_fallback_generate_label_rest(env) ==
    LET requests == IF env.get_ok THEN <<"GET">> ELSE <<"GET", "POST">>
        answers == IF env.get_ok THEN <<RestOutcome(TRUE, env.rest_url)>>
                   ELSE <<"rejected", RestOutcome(env.post_ok, env.rest_url)>>
    IN  IF ~env.get_ok /\ ~env.post_ok
        THEN [calls |-> requests, outcomes |-> answers, error |-> "HTTPError"]
        ELSE IF ~env.rest_url
        THEN [calls |-> requests, outcomes |-> answers,
              error |-> "RuntimeError: no PNG URL"]
        ELSE IF ~env.download_ok
        THEN [calls |-> Append(requests, "download"),
              outcomes |-> Append(answers, "raise"), error |-> "HTTPError"]
        ELSE [calls |-> Append(requests, "download"),
              outcomes |-> Append(answers, "ok"), error |-> ""]

\* What the cache file of sid holds in cache c: "none", "png" or "bad"
CacheState(c, sid) ==
    LET held == {r \in c : r[1] = cache_png_path(sid)}
    IN  IF held = {} THEN "none"
        ELSE IF \E r \in held : r[2].png THEN "png" ELSE "bad"

\* A signature test that accepts any bytes
has_png_signature_any(blob) == TRUE

\* blob[:8] == b"\x89PNG\r\n\x1a\n"
has_png_signature(blob) == blob.png

\* fetch_or_cache_png_for_shipment(client, api_key, sid, status_cb, sess) on
\* cache c: the bytes returned ({} when it raises), the cache it leaves, the
\* network calls it makes and what each came back with, the methods the
\* client offered, its status messages and the error it raises
fetch_or_cache_png_for_shipment(c, sid, env) ==
    LET cached == try_load_cached_png(c, sid)
        generating == <<<<"generating", sid>>>>
        offered == {k \in 1..Len(MethodNames) : env.methods[k] # "absent"}
        ladder == TryMethods(env.methods, 1)
        rest == _fallback_generate_label_rest(env)
        fetched == IF ladder.url
                   THEN [calls |-> <<"retrieve">> \o ladder.calls \o <<"download">>,
                         outcomes |-> <<"ok">> \o ladder.outcomes
                                         \o <<IF env.download_ok THEN "ok" ELSE "raise">>,
                         status |-> generating,
                         error |-> IF env.download_ok THEN "" ELSE "HTTPError"]
                   ELSE [calls |-> <<"retrieve">> \o ladder.calls \o rest.calls,
                         outcomes |-> <<"ok">> \o ladder.outcomes \o rest.outcomes,
                         status |-> Append(generating, <<"fallback">>),
                         error |-> rest.error]
        blob == Label(sid, env.png)
        failed(calls, outcomes, offer, status, error) ==
            [result |-> "failed", blob |-> {}, cache |-> c, calls |-> calls,
             outcomes |-> outcomes, offered |-> offer, status |-> status,
             error |-> error]
    IN  IF cached # {}
        THEN [result |-> "cached", blob |-> cached, cache |-> c, calls |-> <<>>,
              outcomes |-> <<>>, offered |-> {},
              status |-> <<<<"cached", sid>>>>, error |-> ""]
        ELSE IF ~env.retrieve_ok
        THEN failed(<<"retrieve">>, <<"raise">>, {}, generating, "retrieve failed")
        ELSE IF fetched.error # ""
        THEN failed(fetched.calls, fetched.outcomes, offered, fetched.status,
                    fetched.error)
        ELSE IF ~has_png_signature(blob)
        THEN failed(fetched.calls, fetched.outcomes, offered, fetched.status,
                    "RuntimeError: expected PNG content")
        ELSE [result |-> "fetched", blob |-> {blob},
              cache |-> save_cached_png(c, sid, blob), calls |-> fetched.calls,
              outcomes |-> fetched.outcomes, offered |-> offered,
              status |-> fetched.status, error |-> ""]

\* What the carrier and the network do while one shipment id is processed
GoodEnv ==
    [parcel_ok |-> TRUE, retrieve_ok |-> TRUE, methods |-> <<"url", "url", "url">>,
     get_ok |-> TRUE, post_ok |-> TRUE, rest_url |-> TRUE, download_ok |-> TRUE,
     png |-> TRUE]

LabelEnvs ==
    { GoodEnv,
      [GoodEnv EXCEPT !.parcel_ok = FALSE],
      [GoodEnv EXCEPT !.retrieve_ok = FALSE],
      [GoodEnv EXCEPT !.methods = <<"raise", "url", "url">>],
      [GoodEnv EXCEPT !.methods = <<"nourl", "absent", "url">>],
      [GoodEnv EXCEPT !.methods = <<"absent", "absent", "absent">>],
      [GoodEnv EXCEPT !.methods = <<"nourl", "raise", "nourl">>, !.get_ok = FALSE],
      [GoodEnv EXCEPT !.methods = <<"absent", "absent", "absent">>,
                      !.get_ok = FALSE, !.post_ok = FALSE],
      [GoodEnv EXCEPT !.methods = <<"absent", "absent", "absent">>, !.rest_url = FALSE],
      [GoodEnv EXCEPT !.download_ok = FALSE],
      [GoodEnv EXCEPT !.png = FALSE],
      [GoodEnv EXCEPT !.methods = <<"absent", "absent", "absent">>, !.png = FALSE] }

(***************************************************************************)
(* Label documents: build_pdf_from_shipments_multipage                     *)
(***************************************************************************)
\* A test of the parcel type that compares the spelling as it stands
is_letter_exact(predefined) == predefined \in {"letter", "flat", "envelope"}

\* is_letter = str(predefined).lower() in ("letter", "flat", "envelope")
is_letter(predefined) == Lower(predefined) \in {"letter", "flat", "envelope"}

\* A parcel lookup whose failure leaves the shipment a package
is_letter_or_package(parcel_ok, predefined) == parcel_ok /\ is_letter(predefined)

\* The try block of lines 219-225: is_letter of the parcel read, True when
\* reading it raised
is_letter_or_unread(parcel_ok, predefined) ==
    IF parcel_ok THEN is_letter(predefined) ELSE TRUE

\* One call of status_cb: the message, the shipment it names, and what the
\* build had done when it was made (pages appended, document written)
StatusCall(msg, idx, sid, pages, merged) ==
    [msg |-> msg, idx |-> idx, sid |-> sid, pages |-> pages, merged |-> merged]

\* The status_cb calls of one fetch_or_cache_png_for_shipment, made while
\* shipment idx is processed
RECURSIVE FetchStatus(_, _, _, _)
FetchStatus(status, idx, sid, pages) ==
    IF status = <<>> THEN <<>>
    ELSE <<StatusCall(Head(status)[1], idx, sid, pages, FALSE)>>
             \o FetchStatus(Tail(status), idx, sid, pages)

\* The page of a letter label and the resolution of every page
TARGET_WIDTH_IN == 4
TARGET_HEIGHT_IN == 6
TARGET_DPI == 300

\* The pixel size <<width, height>> of the label image in blob: a landscape
\* letter label, a 4x6 package label and an oversize envelope label
LabelSize(blob) == CASE blob.of = "shp_1" -> <<1800, 1200>>
                     [] blob.of = "shp_3" -> <<2400, 1200>>
                     [] OTHER -> <<1200, 1800>>

\* max(1, int(x)) of the code, on the quotient n / d
AtLeastOne(n, d) == IF n \div d < 1 THEN 1 ELSE n \div d

\* ensure_fit(img, max_w, max_h) on the size of img: unchanged when it fits,
\* else scaled by min(max_w / w, max_h / h) and truncated. The float products
\* of the code are the exact quotients for the sizes of LabelSize.
ensure_fit(size, max_w, max_h) ==
    LET w == size[1]
        h == size[2]
    IN  IF w <= max_w /\ h <= max_h THEN size
        ELSE IF max_w * h <= max_h * w
        THEN <<AtLeastOne(w * max_w, w), AtLeastOne(h * max_w, w)>>
        ELSE <<AtLeastOne(w * max_h, h), AtLeastOne(h * max_h, h)>>

\* png_to_rotated_padded_pil(png_bytes, target_w_in, target_h_in, dpi): the
\* canvas, the size of the rotated image pasted on it and where it is pasted
png_to_rotated_padded_pil(blob, target_w_in, target_h_in, dpi) ==
    LET size == LabelSize(blob)
        target_w_px == target_w_in * dpi
        target_h_px == target_h_in * dpi
        rotated == ensure_fit(<<size[2], size[1]>>, target_w_px, target_h_px)
    IN  [size |-> <<target_w_px, target_h_px>>, content |-> rotated,
         at |-> <<0, (target_h_px - rotated[2]) \div 2>>, rotated |-> TRUE,
         mode |-> "RGB"]

\* Image.open(io.BytesIO(png_blob)).convert("RGB")
convert_rgb(blob) ==
    [size |-> LabelSize(blob), content |-> LabelSize(blob), at |-> <<0, 0>>,
     rotated |-> FALSE, mode |-> "RGB"]

\* pil_img of one iteration, with the shipment, the treatment chosen and the
\* bytes it was made of
PageImage(sid, letter, blob) ==
    LET img == IF letter
               THEN png_to_rotated_padded_pil(blob, TARGET_WIDTH_IN,
                                              TARGET_HEIGHT_IN, TARGET_DPI)
               ELSE convert_rgb(blob)
    IN  [sid |-> sid, letter |-> letter, blob |-> blob, size |-> img.size,
         content |-> img.content, at |-> img.at, rotated |-> img.rotated,
         mode |-> img.mode]

\* pil_to_pdf_bytes(pil_img, dpi): a document of one page
pil_to_pdf_bytes(pil_img) == <<pil_img>>

\* A merge that appends every document in front of the pages merged so far
RECURSIVE merge_pdfs_reversed(_)
merge_pdfs_reversed(blobs) ==
    IF blobs = <<>> THEN <<>>
    ELSE merge_pdfs_reversed(Tail(blobs)) \o Head(blobs)

\* merge_pdfs_to_file(pdf_blobs, out_path): the pages written at out_path
RECURSIVE merge_pdfs_to_file(_)
merge_pdfs_to_file(blobs) ==
    IF blobs = <<>> THEN <<>>
    ELSE Head(blobs) \o merge_pdfs_to_file(Tail(blobs))

\* The id lists a caller passes: not empty, in any order, ids may repeat
IdLists == UNION {[1..n -> ShipmentIds] : n \in 1..MaxIds}

\* build_pdf_from_shipments_multipage(client, api_key, ids, out_path, status_cb)
\* is entered
BuildStart(ids) ==
    /\ lpc = "idle"
    /\ lpc' = "loop"
    /\ shipment_ids' = ids
    /\ li' = 1
    /\ pdf_blobs' = <<>>
    /\ out_doc' = <<>>
    /\ status_log' = <<>>
    /\ fetch_log' = <<>>
    /\ UNCHANGED cache
    /\ UNCHANGED <<uiVars, buttons, batchVars, fulfilVars>>

\* A loop that goes on after an acquisition that raised
AfterFetchSwallow(result) == "loop"

\* Where the build is after the fetch of line 227: its exception is not
\* caught in build_pdf_from_shipments_multipage and leaves the loop
AfterFetch(result) == IF result = "failed" THEN "failed" ELSE "loop"

\* One iteration of `for idx, sid in enumerate(shipment_ids, start=1)`; an
\* acquisition that raises ends the build
BuildPage(env) ==
    /\ lpc = "loop"
    /\ li <= Len(shipment_ids)
    /\ LET sid == shipment_ids[li]
           letter == is_letter_or_unread(env.parcel_ok, ShipmentParcel(sid))
           got == fetch_or_cache_png_for_shipment(cache, sid, env)
           png_blob == CHOOSE b \in got.blob : TRUE
       IN  /\ status_log' = Append(status_log,
                                   StatusCall("page", li, sid, Len(pdf_blobs), FALSE))
                                \o FetchStatus(got.status, li, sid, Len(pdf_blobs))
           /\ fetch_log' = Append(fetch_log,
                                  [sid |-> sid, before |-> CacheState(cache, sid),
                                   parcel_ok |-> env.parcel_ok,
                                   outcomes |-> got.outcomes,
                                   offered |-> got.offered,
                                   result |-> got.result, blob |-> got.blob,
                                   calls |-> got.calls, error |-> got.error])
           /\ cache' = got.cache
           /\ lpc' = AfterFetch(got.result)
           /\ IF got.result = "failed"
              THEN UNCHANGED <<li, pdf_blobs>>
              ELSE /\ pdf_blobs' = Append(pdf_blobs,
                                        pil_to_pdf_bytes(PageImage(sid, letter, png_blob)))
                   /\ li' = li + 1
    /\ UNCHANGED <<shipment_ids, out_doc>>
    /\ UNCHANGED <<uiVars, buttons, batchVars, fulfilVars>>

\* A merge that returns without the closing status_cb("Done.")
MergePdfNoDone ==
    /\ lpc = "loop"
    /\ li > Len(shipment_ids)
    /\ out_doc' = merge_pdfs_to_file(pdf_blobs)
    /\ status_log' = Append(status_log,
                            StatusCall("merging", 0, "", Len(pdf_blobs), FALSE))
    /\ lpc' = "done"
    /\ UNCHANGED <<cache, shipment_ids, li, pdf_blobs, fetch_log>>
    /\ UNCHANGED <<uiVars, buttons, batchVars, fulfilVars>>

\* After the loop: the pages are merged and written
MergePdf ==
    /\ lpc = "loop"
    /\ li > Len(shipment_ids)
    /\ out_doc' = merge_pdfs_to_file(pdf_blobs)
    /\ status_log' = status_log
                         \o <<StatusCall("merging", 0, "", Len(pdf_blobs), FALSE),
                              StatusCall("done", 0, "", Len(pdf_blobs), TRUE)>>
    /\ lpc' = "done"
    /\ UNCHANGED <<cache, shipment_ids, li, pdf_blobs, fetch_log>>
    /\ UNCHANGED <<uiVars, buttons, batchVars, fulfilVars>>

\* The build returns, or its exception reaches the caller
BuildReturn ==
    /\ lpc \in {"done", "failed"}
    /\ lpc' = "idle"
    /\ UNCHANGED <<cache, shipment_ids, li, pdf_blobs, out_doc, status_log, fetch_log>>
    /\ UNCHANGED <<uiVars, buttons, batchVars, fulfilVars>>

\* App.on_clear_cache, confirmed: the cache directory is removed. The window
\* stays responsive while a build runs in its worker thread.
ClearCache ==
    /\ cache # {}
    /\ cache' = {}
    /\ UNCHANGED <<lpc, shipment_ids, li, pdf_blobs, out_doc, status_log, fetch_log>>
    /\ UNCHANGED <<uiVars, buttons, batchVars, fulfilVars>>

\* The cache directories a start can find: empty, or holding the label of
\* shp_1, whole or damaged
InitialCaches ==
    { {},
      {<<cache_png_path("shp_1"), Label("shp_1", TRUE)>>},
      {<<cache_png_path("shp_1"), Label("shp_1", FALSE)>>} }

InitLabels ==
    /\ rules = LoadConfigRules(<<>>)
    /\ sort_mode = "Platform"
    /\ defaults = DefaultConfig
    /\ loaded = FALSE
    /\ index = <<>>
    /\ data = <<>>
    /\ mask = <<>>
    /\ call = NoCall
    /\ BatchIdle
    /\ FulfilIdle
    /\ cache \in InitialCaches
    /\ lpc = "idle" /\ shipment_ids = <<>> /\ li = 0
    /\ pdf_blobs = <<>> /\ out_doc = <<>> /\ status_log = <<>> /\ fetch_log = <<>>

NextLabels ==
    \/ \E ids \in IdLists : BuildStart(ids)
    \/ \E env \in LabelEnvs : BuildPage(env)
    \/ MergePdf
    \/ BuildReturn
    \/ ClearCache

SpecLabels == InitLabels /\ [][NextLabels]_vars

\* File names: builds for ids that differ only in "/" and "_", the one
\* character cache_png_path rewrites
SlashIds == {"shp_1", "shp/1"}

SlashIdLists == UNION {[1..n -> SlashIds] : n \in 1..MaxIds}

SlashEnvs ==
    { GoodEnv,
      [GoodEnv EXCEPT !.retrieve_ok = FALSE],
      [GoodEnv EXCEPT !.png = FALSE] }

NextCache ==
    \/ \E ids \in SlashIdLists : BuildStart(ids)
    \/ \E env \in SlashEnvs : BuildPage(env)
    \/ MergePdf
    \/ BuildReturn
    \/ ClearCache

SpecCache == InitLabels /\ [][NextCache]_vars

(***************************************************************************)
(* Fulfillment updates: manapool_fulfillment.py                            *)
(***************************************************************************)
MaxRecords == 2
MaxWorkers == 2

\* The keys _do_update reads of a row
RowKeys == {"mp_order_id", "manapool.order_id", "order_id",
            "tracking_company", "tracking_number", "tracking_url"}

\* r.get(k, default)
Get(r, k, default) == IF r[k] = Absent THEN default ELSE r[k]

\* a or b: None and "" are false
Or(a, b) == IF a \notin {None, ""} THEN a ELSE b

\* str(v) of a value of a row
StrOf(v) == IF v = None THEN "None" ELSE v

\* order_id = str(r.get("mp_order_id") or r.get("manapool.order_id")
\*                or r.get("order_id", "")).strip()
OrderIdOf(r) ==
    Strip(StrOf(Or(Or(Get(r, "mp_order_id", None), Get(r, "manapool.order_id", None)),
                   Get(r, "order_id", ""))))

\* str(r.get(k, "")).strip() or None
TrackingField(r, k) == Or(Strip(StrOf(Get(r, k, ""))), None)

\* default_status of show_fulfillment_window
default_status == "shipped"

\* payload of one record
Payload(r) ==
    [status |-> default_status,
     tracking_company |-> TrackingField(r, "tracking_company"),
     tracking_number |-> TrackingField(r, "tracking_number"),
     tracking_url |-> TrackingField(r, "tracking_url"),
     in_transit_at |-> None, estimated_delivery_at |-> None, delivered_at |-> None]

\* _headers(email, api_key): the credentials a call carries
_headers(email, api_key) == [email |-> email, token |-> api_key]

\* Retry(total=5, status_forcelist=[429, 500, 502, 503, 504],
\*       allowed_methods=frozenset(["GET", "PUT"]), raise_on_status=False)
RetryTotal == 5
status_forcelist == {429, 500, 502, 503, 504}
allowed_methods == {"GET", "PUT"}

\* What one attempt meets: a response of some status, or a connection error
Response(status) == [status |-> status, raised |-> FALSE]
ConnectionError == [status |-> 0, raised |-> TRUE]

\* The answer to attempt k of a server following script: its last entry
\* repeats for as long as the transport asks
Answer(script, k) == IF k <= Len(script) THEN script[k] ELSE script[Len(script)]

\* A transport that retries a forced status however often it has retried
RECURSIVE SendUnbounded(_, _, _)
SendUnbounded(script, method, k) ==
    LET resp == Answer(script, k)
        again == \/ resp.raised
                 \/ (method \in allowed_methods /\ resp.status \in status_forcelist)
    IN  IF again /\ k < Len(script) + RetryTotal + 2
        THEN SendUnbounded(script, method, k + 1)
        ELSE [attempts |-> k, status |-> resp.status, raised |-> resp.raised,
              seen |-> [j \in 1..k |-> Answer(script, j)]]

\* session.request through the adapter of _session_with_retries, from
\* attempt k on: a connection error or a forced status of an allowed method
\* is retried while fewer than RetryTotal retries were made; after that the
\* last response is returned as it is, or the connection error is raised;
\* seen is what each attempt met
RECURSIVE Send(_, _, _)
Send(script, method, k) ==
    LET resp == Answer(script, k)
        again == \/ resp.raised
                 \/ (method \in allowed_methods /\ resp.status \in status_forcelist)
    IN  IF again /\ k - 1 < RetryTotal
        THEN Send(script, method, k + 1)
        ELSE [attempts |-> k, status |-> resp.status, raised |-> resp.raised,
              seen |-> [j \in 1..k |-> Answer(script, j)]]

\* _put_fulfillment(session, base_url, email, api_key, order_id, payload)
_put_fulfillment(script, email, api_key, order_id, payload_) ==
    LET r == Send(script, "PUT", 1)
    IN  [order_id |-> order_id, headers |-> _headers(email, api_key),
         payload |-> payload_, attempts |-> r.attempts, status |-> r.status,
         raised |-> r.raised, seen |-> r.seen]

\* A loop that leaves at the first record that failed
NextRecordAbort(n, i, failed) == IF failed THEN n ELSE i + 1

\* for idx, r in enumerate(rows): the index after record i, failed or not
NextRecord(n, i, failed) == i + 1

\* The locals of a thread of _do_update that has not run yet
NewWorker ==
    [pc |-> "started", i |-> 0, ok_count |-> 0, err_count |-> 0,
     error_rows |-> <<>>, puts |-> <<>>, report |-> ""]

\* _do_update: the press of btn_update
ClickUpdate ==
    /\ f_rows # <<>>
    /\ btn_update = "normal"
    /\ Len(workers) < MaxWorkers
    /\ IF f_creds.email = "" \/ f_creds.api_key = ""
       THEN f_click' = "refused" /\ UNCHANGED workers
       ELSE f_click' = "started" /\ workers' = Append(workers, NewWorker)
    /\ UNCHANGED <<f_rows, f_creds, btn_update>>
    /\ UNCHANGED <<uiVars, buttons, batchVars, labelVars>>

\* work(): the thread starts running and disables the buttons
WorkerBegin(w) ==
    /\ w \in 1..Len(workers)
    /\ workers[w].pc = "started"
    /\ btn_update' = "disabled"
    /\ workers' = [workers EXCEPT ![w].pc = "loop"]
    /\ UNCHANGED <<f_rows, f_creds, f_click>>
    /\ UNCHANGED <<uiVars, buttons, batchVars, labelVars>>

\* One iteration of `for idx, r in enumerate(rows)` in thread w
WorkerRow(w, script) ==
    /\ w \in 1..Len(workers)
    /\ workers[w].pc = "loop"
    /\ workers[w].i < Len(f_rows)
    /\ LET me == workers[w]
           idx == me.i
           r == f_rows[idx + 1]
           order_id == OrderIdOf(r)
           resp == _put_fulfillment(script, f_creds.email, f_creds.api_key,
                                    order_id, Payload(r))
           ok == order_id # "" /\ ~resp.raised /\ 200 <= resp.status /\ resp.status < 300
           message == IF order_id = "" THEN [idx |-> idx, kind |-> "missing order id", status |-> 0]
                      ELSE IF resp.raised THEN [idx |-> idx, kind |-> "ConnectionError", status |-> 0]
                      ELSE [idx |-> idx, kind |-> "HTTP", status |-> resp.status]
       IN  workers' = [workers EXCEPT ![w] =
               [me EXCEPT
                  !.i = NextRecord(Len(f_rows), idx, ~ok),
                  !.ok_count = IF ok THEN me.ok_count + 1 ELSE me.ok_count,
                  !.err_count = IF ok THEN me.err_count ELSE me.err_count + 1,
                  !.error_rows = IF ok THEN me.error_rows
                                 ELSE Append(me.error_rows, message),
                  !.puts = IF order_id = "" THEN me.puts
                           ELSE Append(me.puts, [idx |-> idx] @@ resp)]]
    /\ UNCHANGED <<f_rows, f_creds, btn_update, f_click>>
    /\ UNCHANGED <<uiVars, buttons, batchVars, labelVars>>

\* After the loop: the buttons are enabled again and the counts are shown
WorkerEnd(w) ==
    /\ w \in 1..Len(workers)
    /\ workers[w].pc = "loop"
    /\ workers[w].i >= Len(f_rows)
    /\ btn_update' = "normal"
    /\ workers' = [workers EXCEPT
                      ![w].pc = "done",
                      ![w].report = IF workers[w].err_count = 0
                                    THEN "showinfo" ELSE "showwarning"]
    /\ UNCHANGED <<f_rows, f_creds, f_click>>
    /\ UNCHANGED <<uiVars, buttons, batchVars, labelVars>>

\* A row as a dict over RowKeys
FulfilRow(mp, mano, oid, company, number, url) ==
    [k \in RowKeys |->
        CASE k = "mp_order_id" -> mp
          [] k = "manapool.order_id" -> mano
          [] k = "order_id" -> oid
          [] k = "tracking_company" -> company
          [] k = "tracking_number" -> number
          [] OTHER -> url]

\* The rows a window is opened on: a purchase record of Shipping.py, rows of
\* a CSV with the order id in another column, without order id, with blank
\* cells and with cells a short line leaves None
FulfilRows ==
    { FulfilRow("mp-1", Absent, Absent, "USPS", "9400", "https://track/9400"),
      FulfilRow(Absent, "mp-2", Absent, " ", "", Absent),
      FulfilRow(" ", Absent, Absent, "USPS", "9400", ""),
      FulfilRow(Absent, Absent, Absent, "USPS", "9400", ""),
      FulfilRow("mp-1", Absent, Absent, "USPS", "9400", None),
      FulfilRow(Absent, Absent, None, "USPS", "", "") }

FulfilRowLists == UNION {[1..n -> FulfilRows] : n \in 1..MaxRecords}

\* What the server does with the attempts of one call
Scripts ==
    { <<Response(200)>>, <<Response(404)>>, <<Response(501)>>, <<Response(503)>>,
      <<Response(429), Response(200)>>,
      <<Response(500), Response(502), Response(503), Response(504), Response(429),
        Response(200)>>,
      <<Response(500), Response(502), Response(503), Response(504), Response(429),
        Response(429), Response(200)>>,
      <<ConnectionError>>,
      <<ConnectionError, Response(204)>> }

Credentials ==
    { [email |-> "seller@shop", api_key |-> "mp-token"],
      [email |-> "", api_key |-> "mp-token"] }

InitFulfil ==
    /\ rules = LoadConfigRules(<<>>)
    /\ sort_mode = "Platform"
    /\ defaults = DefaultConfig
    /\ loaded = FALSE
    /\ index = <<>>
    /\ data = <<>>
    /\ mask = <<>>
    /\ call = NoCall
    /\ BatchIdle
    /\ LabelsIdle
    /\ f_rows \in FulfilRowLists
    /\ f_creds \in Credentials
    /\ btn_update = "normal" /\ f_click = "" /\ workers = <<>>

\* The update button pressed in a window no thread was started from
ClickOnce == workers = <<>> /\ ClickUpdate

NextFulfil ==
    \/ ClickOnce
    \/ \E w \in 1..MaxWorkers : WorkerBegin(w)
    \/ \E w \in 1..MaxWorkers, script \in Scripts : WorkerRow(w, script)
    \/ \E w \in 1..MaxWorkers : WorkerEnd(w)

SpecFulfil == InitFulfil /\ [][NextFulfil]_vars

\* The rows and the server of the windows whose button is pressed at will
WorkerRowLists ==
    UNION {[1..n -> {FulfilRow("mp-1", Absent, Absent, "USPS", "9400", ""),
                     FulfilRow(Absent, Absent, Absent, "USPS", "9400", "")}]
              : n \in 1..MaxRecords}

WorkerScripts == {<<Response(200)>>, <<Response(503)>>}

InitWorkers ==
    /\ rules = LoadConfigRules(<<>>)
    /\ sort_mode = "Platform"
    /\ defaults = DefaultConfig
    /\ loaded = FALSE
    /\ index = <<>>
    /\ data = <<>>
    /\ mask = <<>>
    /\ call = NoCall
    /\ BatchIdle
    /\ LabelsIdle
    /\ f_rows \in WorkerRowLists
    /\ f_creds \in Credentials
    /\ btn_update = "normal" /\ f_click = "" /\ workers = <<>>

NextWorkers ==
    \/ ClickUpdate
    \/ \E w \in 1..MaxWorkers : WorkerBegin(w)
    \/ \E w \in 1..MaxWorkers, script \in WorkerScripts : WorkerRow(w, script)
    \/ \E w \in 1..MaxWorkers : WorkerEnd(w)

SpecWorkers == InitWorkers /\ [][NextWorkers]_vars

(***************************************************************************)
(* Purchase batch properties (SpecBuy)                                     *)
(***************************************************************************)
\* The loop over `order` has run to its end
LoopDone == order # <<>> /\ pos > Len(order)

\* Positions of the rows whose create, rate selection or buy failed
FailedEarly == {i \in 1..Len(row_log) : row_log[i].step \in {"create", "rates", "buy"}}

\* Positions of the rows that raised after their buy call had succeeded
FailedLate == {i \in 1..Len(row_log) : row_log[i].step = "post"}

\* C1: when the loop has ended and exactly one row of the batch failed, in
\* shipment creation, rate selection or buy, there are exactly N-1 purchased
\* shipment ids and exactly one error entry, which names the failed row.
C1_OneFailure ==
    (LoopDone /\ Cardinality(FailedEarly) = 1 /\ FailedLate = {})
        => /\ Len(bought_ids) = Len(order) - 1
           /\ Len(errors) = 1
           /\ errors[1][1] = order[CHOOSE i \in FailedEarly : TRUE]

C1_Witness ==
    /\ pc = "idle" /\ outcome = "ok" /\ doc_written
    /\ Len(order) = 2
    /\ FailedEarly = {1} /\ FailedLate = {}
    /\ Len(bought_ids) = 1 /\ Len(errors) = 1

\* C2: with zero purchases the operation is fatal: the document build is never
\* called, no document is written, the fulfillment window is never shown, and
\* the handler leaves with the "Buy Failed" return.
C2_AllFailedFatal ==
    bought_ids = <<>>
        => /\ pc # "build"
           /\ ~build_called /\ ~doc_written /\ ~fulfil_shown
           /\ (LoopDone /\ pc \in {"finally", "idle"} => outcome = "fatal")

C2_Witness ==
    /\ pc = "idle" /\ outcome = "fatal"
    /\ Len(order) = 2 /\ Len(errors) = 2 /\ bought_ids = <<>>
    /\ \E i \in 1..2 : data[order[i]].order_id # ""
    /\ ~build_called /\ ~doc_written /\ ~fulfil_shown

\* The carrier's create calls so far, as row labels in call order
CreatedRows ==
    LET creates == SelectSeq(api_log, LAMBDA c : c[1] = "create")
    IN  [i \in 1..Len(creates) |-> creates[i][2]]

\* The rows that failed so far, as row labels in processing order
FailedRows ==
    LET failed == SelectSeq(row_log, LAMBDA e : e.step # "done")
    IN  [i \in 1..Len(failed) |-> failed[i].idx]

\* C3: rows are attempted one by one in the given order, each exactly once and
\* whatever happened to the rows before; the loop is left only after the last
\* row; every failure is recorded as <<row label, message>>, in order.
C3_NeverAborts ==
    order # <<>>
        => /\ pos \in 1..(Len(order) + 1)
           /\ CreatedRows = SubSeq(order, 1, pos - 1)
           /\ [i \in 1..Len(row_log) |-> row_log[i].idx] = SubSeq(order, 1, pos - 1)
           /\ (pc # "loop" => pos = Len(order) + 1)
           /\ [i \in 1..Len(errors) |-> errors[i][1]] = FailedRows
           /\ \A i \in 1..Len(errors) : errors[i][2] # ""

C3_Witness ==
    /\ pc = "loop" /\ Len(order) = 2 /\ pos = 3
    /\ row_log[1].step = "create" /\ row_log[2].step = "done"
    /\ CreatedRows = order
    /\ errors = <<<<order[1], "InvalidRequestError: create">>>>

(***************************************************************************)
(* Classification properties (Spec, SpecConvert)                           *)
(***************************************************************************)
\* The last handler was load_csv: `call` holds its inputs and applications
Classified == call.op = "load_csv"

\* The rules whose threshold admits row r's item count
Matching(r) == {k \in 1..Len(rules) : call.card_count[r] <= rules[k].max_items}

\* The spellings of the sentinel label
PackageSpellings == {"Package", "PACKAGE", "package"}

\* Row r has every dimensional column, weight and predefined_package blank
BlankPackage(r) ==
    /\ data[r].length = "" /\ data[r].width = "" /\ data[r].height = ""
    /\ data[r].weight = "" /\ data[r].predefined_package = ""

\* C9: the rule list is sorted ascending by max_items in every state.
C9_RulesSorted ==
    \A i, j \in 1..Len(rules) : i < j => rules[i].max_items <= rules[j].max_items

\* C4: a row without package hint that some rule admits is given a rule of the
\* lowest threshold among the rules admitting its item count.
C4_LowestThreshold ==
    Classified =>
        \A r \in DOMAIN data :
            (~call.is_package[r] /\ Matching(r) # {})
                => /\ call.applied[r] \in Matching(r)
                   /\ \A j \in Matching(r) :
                         rules[call.applied[r]].max_items <= rules[j].max_items

\* C5: a row without package hint whose item count exceeds every threshold is
\* given the last rule of the list, which has the largest max_items.
C5_FallbackLargest ==
    Classified =>
        \A r \in DOMAIN data :
            (~call.is_package[r] /\ Matching(r) = {} /\ Len(rules) > 0)
                => /\ call.applied[r] = Len(rules)
                   /\ \A j \in 1..Len(rules) :
                         rules[j].max_items <= rules[call.applied[r]].max_items

\* C6: a row with the package hint is a package with length, width, height,
\* weight and predefined_package blank, and no rule is applied to it.
C6_HintIsPackage ==
    Classified =>
        \A r \in DOMAIN data :
            call.is_package[r]
                => mask[r] /\ BlankPackage(r) /\ call.applied[r] = 0

C6_Witness ==
    /\ Classified
    /\ \E r \in DOMAIN data :
          /\ call.is_package[r]
          /\ \E k \in Matching(r) : rules[k].predefined_package = "Letter"
          /\ mask[r] /\ BlankPackage(r)
    /\ \E r \in DOMAIN data : ~mask[r] /\ data[r].predefined_package = "Letter"

\* C7: a row given a rule whose label is "Package" in any letter case is a
\* package with the blank columns of the hint path, whatever the rule's
\* weight_oz and machinable.
C7_SentinelIsPackage ==
    Classified =>
        \A r \in DOMAIN data :
            (call.applied[r] # 0
             /\ rules[call.applied[r]].predefined_package \in PackageSpellings)
                => /\ mask[r] /\ BlankPackage(r)
                   /\ data[r].machinable = ""
                   /\ data[r].service = package_service

C7_Witness ==
    /\ Classified
    /\ \E r \in DOMAIN data :
          /\ ~call.is_package[r] /\ call.applied[r] # 0
          /\ call.applied[r] \in Matching(r)
          /\ rules[call.applied[r]] = Rule(2, PyFloat(10), TRUE, "PACKAGE")
          /\ mask[r] /\ BlankPackage(r) /\ data[r].machinable = ""
    /\ \E r \in DOMAIN data :
          /\ ~call.is_package[r] /\ Matching(r) = {}
          /\ rules[call.applied[r]].predefined_package = "PACKAGE"
          /\ mask[r] /\ BlankPackage(r)

\* C8: a row given any other rule is a letter: weight, machinable and
\* predefined_package are the rule's, length, width and height are blank and
\* the row is not flagged as a package.
C8_LetterVerbatim ==
    Classified =>
        \A r \in DOMAIN data :
            (call.applied[r] # 0
             /\ rules[call.applied[r]].predefined_package \notin PackageSpellings)
                => LET rule == rules[call.applied[r]]
                   IN  /\ ~mask[r]
                       /\ ParseFloat(data[r].weight) = {rule.weight_oz.t}
                       /\ data[r].machinable = (IF rule.machinable THEN "True" ELSE "False")
                       /\ data[r].predefined_package = rule.predefined_package
                       /\ data[r].length = "" /\ data[r].width = "" /\ data[r].height = ""

C8_Witness ==
    /\ Classified
    /\ \E r \in DOMAIN data :
          /\ call.applied[r] # 0
          /\ rules[call.applied[r]] = Rule(2, PyFloat(20), FALSE, "Letter")
          /\ data[r].weight = "2.0" /\ data[r].machinable = "False"
          /\ data[r].predefined_package = "Letter" /\ ~mask[r]
    /\ \E r \in DOMAIN data :
          /\ call.applied[r] # 0
          /\ rules[call.applied[r]] = Rule(1, PyFloat(10), TRUE, "Letter")
          /\ data[r].weight = "1.0" /\ data[r].machinable = "True"

\* C10: a row flagged as package has a blank predefined_package and is sent
\* as a dimensioned parcel; a row not flagged is sent as a predefined-package
\* parcel without dimensions.
C10_FlagMatchesParcel ==
    loaded =>
        \A r \in DOMAIN data :
            LET keys == DOMAIN _mk_parcel(data[r])
            IN  /\ mask[r] =>
                    /\ data[r].predefined_package = ""
                    /\ "predefined_package" \notin keys
                    /\ (~_row_needs_dims(r) => {"length", "width", "height"} \subseteq keys)
                /\ ~mask[r] =>
                    /\ "predefined_package" \in keys
                    /\ keys \cap {"length", "width", "height"} = {}

(***************************************************************************)
(* Purchase preconditions (SpecBuy)                                        *)
(***************************************************************************)
\* Row r is flagged as a package and one of its length, width, height and
\* weight is blank, not a number or not positive
IncompletePackage(r) ==
    /\ mask[r]
    /\ \E v \in {data[r].length, data[r].width, data[r].height, data[r].weight} :
          ~(\E t \in ParseFloat(Strip(v)) : t > 0)

\* C11: while some package row lacks a positive length, width, height or
\* weight, no purchase batch is running and the last call of the handler has
\* made no carrier call and no purchase.
C11_DimsBeforeBuy ==
    (\E r \in DOMAIN data : IncompletePackage(r))
        => pc = "idle" /\ api_log = <<>> /\ bought_ids = <<>> /\ row_log = <<>>

C11_Witness ==
    /\ outcome = "cannot_buy" /\ pc = "idle"
    /\ \E r \in DOMAIN data : IncompletePackage(r) /\ data[r].length = ""
    /\ \E r \in DOMAIN data : mask[r] /\ ~IncompletePackage(r)
    /\ api_log = <<>> /\ bought_ids = <<>>

\* C16: a call of the handler that reads an empty API key returns at once: no
\* row is attempted, no create or buy call is made, no purchase and no error
\* is recorded.
C16_MissingKeyAborts ==
    key = ""
        => /\ pc = "idle"
           /\ api_log = <<>> /\ row_log = <<>>
           /\ bought_ids = <<>> /\ errors = <<>> /\ mp_rows = <<>>
           /\ ~build_called /\ ~doc_written

C16_Witness ==
    /\ outcome = "missing_key" /\ key = "" /\ pc = "idle"
    /\ loaded /\ Len(index) = 2 /\ _packages_missing_count = 0
    /\ \E r \in DOMAIN data : mask[r]
    /\ api_log = <<>> /\ bought_ids = <<>> /\ errors = <<>>

(***************************************************************************)
(* Rate selection properties (SpecRates)                                   *)
(***************************************************************************)
\* The desired carrier and service of the row of row_log entry e
WantCarrier(e) == Strip(data[e.idx].carrier)
WantService(e) == Strip(data[e.idx].service)

\* Both desired fields are non-empty
Desired(e) == WantCarrier(e) # "" /\ WantService(e) # ""

\* Positions of the quotes matching the desired pair, letter case aside
Matches(e) ==
    {j \in 1..Len(e.rates) :
        /\ Upper(e.rates[j].carrier) = Upper(WantCarrier(e))
        /\ Upper(e.rates[j].service) = Upper(WantService(e))}

\* Positions of the quotes whose price is a number, and that number in tenths
Priced(e) == {j \in 1..Len(e.rates) : ParseFloat(e.rates[j].rate) # {}}
PriceOf(e, j) == CHOOSE t \in ParseFloat(e.rates[j].rate) : TRUE

\* The cheapest selection applies: nothing desired or nothing matching
Fallback(e) == e.rates # <<>> /\ (~Desired(e) \/ Matches(e) = {})

\* C12: with both desired fields non-empty and a quote matching them, letter
\* case aside, the first matching quote is chosen, cheaper quotes or not.
C12_MatchPreferred ==
    \A i \in 1..Len(row_log) :
        LET e == row_log[i]
        IN  (Desired(e) /\ Matches(e) # {})
                => e.chosen = {e.rates[CHOOSE j \in Matches(e) :
                                          \A k \in Matches(e) : j <= k].id}

C12_Witness ==
    /\ Len(row_log) = 1 /\ row_log[1].step = "done"
    /\ LET e == row_log[1]
       IN  /\ Desired(e) /\ Matches(e) = {2}
           /\ e.rates[2].carrier # WantCarrier(e)
           /\ Priced(e) = {1, 2} /\ PriceOf(e, 1) < PriceOf(e, 2)
           /\ e.chosen = {e.rates[2].id}
           /\ api_log[Len(api_log)] = <<"buy", e.idx, e.rates[2].id>>

\* C13: with nothing desired or nothing matching, the chosen quote has the
\* minimum price of the list and is the first quote of that price.
C13_CheapestFirst ==
    \A i \in 1..Len(row_log) :
        LET e == row_log[i]
        IN  (Fallback(e) /\ Priced(e) # {})
                => \E j \in Priced(e) :
                      /\ e.chosen = {e.rates[j].id}
                      /\ \A k \in Priced(e) :
                            \/ PriceOf(e, j) < PriceOf(e, k)
                            \/ PriceOf(e, j) = PriceOf(e, k) /\ j <= k

\* C14: with nothing desired or nothing matching, a quote without a numeric
\* price is chosen only when no quote has one, and then it is the first of
\* the list; otherwise the chosen quote is a cheapest priced one.
C14_UnparseableExcluded ==
    \A i \in 1..Len(row_log) :
        LET e == row_log[i]
        IN  Fallback(e)
                => IF Priced(e) = {}
                   THEN e.chosen = {e.rates[1].id}
                   ELSE \E j \in Priced(e) :
                           /\ e.chosen = {e.rates[j].id}
                           /\ \A k \in Priced(e) : PriceOf(e, j) <= PriceOf(e, k)

(***************************************************************************)
(* Per-row outcomes of the purchase loop (SpecBuy)                         *)
(***************************************************************************)
\* The message of the error raised when no rate could be chosen
NoRatesMessage == "RuntimeError: No rates available for shipment."

\* C15: a row whose shipment was created with an empty rate list gets no buy
\* call and no purchase, its error entry carries the no-rates message, and
\* the loop stands at the row after it.
C15_NoRatesRecorded ==
    \A i \in 1..Len(row_log) :
        LET e == row_log[i]
        IN  (e.step # "create" /\ e.rates = <<>>)
                => /\ e.step = "rates"
                   /\ \A n \in 1..Len(api_log) :
                         ~(api_log[n][1] = "buy" /\ api_log[n][2] = e.idx)
                   /\ \A n \in 1..Len(bought_ids) : bought_ids[n] # ShipmentId(e.idx)
                   /\ \E n \in 1..Len(errors) : errors[n] = <<e.idx, NoRatesMessage>>
                   /\ (pc = "loop" /\ i = Len(row_log) => pos = i + 1)

C15_Witness ==
    /\ Len(order) = 2 /\ Len(row_log) = 2
    /\ row_log[1].step = "rates" /\ row_log[1].rates = <<>>
    /\ row_log[2].step = "done"
    /\ errors = <<<<order[1], NoRatesMessage>>>>
    /\ bought_ids = <<ShipmentId(order[2])>>

\* The rows whose buy call succeeded and that carry a marketplace order id,
\* as row labels in purchase order
BoughtWithOrderId ==
    LET hit == SelectSeq(row_log, LAMBDA e : /\ e.step \in {"post", "done"}
                                             /\ Strip(data[e.idx].order_id) # "")
    IN  [i \in 1..Len(hit) |-> hit[i].idx]

\* C17: the fulfillment records are those of the rows whose buy call
\* succeeded and that carry a marketplace order id, one each, in purchase
\* order.
C17_RecordIffBought ==
    /\ Len(mp_rows) = Len(BoughtWithOrderId)
    /\ \A i \in 1..Len(mp_rows) :
          /\ mp_rows[i].shipment = ShipmentId(BoughtWithOrderId[i])
          /\ mp_rows[i].mp_order_id = Strip(data[BoughtWithOrderId[i]].order_id)

(***************************************************************************)
(* Label cache and document properties (SpecLabels)                        *)
(***************************************************************************)
\* The fetch_or_cache_png_for_shipment call made by this step, if any
FetchStep == Len(fetch_log') = Len(fetch_log) + 1

\* C18: a call that finds the PNG of its id in the cache returns those bytes
\* and makes no network call, and a call that returns bytes leaves them in the
\* cache: once a fetch has succeeded, every later call for the id is served
\* from the cache for as long as the entry is there.
C18_CachedNoNetwork ==
    /\ [](\A j \in 1..Len(fetch_log) :
            LET e == fetch_log[j]
            IN  e.before = "png"
                    => /\ e.result = "cached" /\ e.calls = <<>>
                       /\ e.blob = {Label(e.sid, TRUE)})
    /\ [][(FetchStep /\ fetch_log'[Len(fetch_log')].result # "failed")
            => CacheState(cache', fetch_log'[Len(fetch_log')].sid) = "png"]_vars

C18_Witness ==
    /\ lpc = "done" /\ Len(fetch_log) = 2
    /\ fetch_log[1].sid = fetch_log[2].sid
    /\ fetch_log[1].before = "bad" /\ fetch_log[1].result = "fetched"
    /\ fetch_log[1].calls = <<"retrieve", "generate_label", "label", "convert_label",
                              "GET", "POST", "download">>
    /\ fetch_log[2].before = "png" /\ fetch_log[2].result = "cached"
    /\ fetch_log[2].calls = <<>>

\* The error raised when downloaded bytes lack the PNG signature
SignatureError == "RuntimeError: expected PNG content"

\* How often the signature check failed within the call of entry e: on the
\* cached bytes and on the downloaded bytes
SignatureFailures(e) ==
    (IF e.before = "bad" THEN 1 ELSE 0) + (IF e.error = SignatureError THEN 1 ELSE 0)

\* C19: cached bytes that fail the signature check make the call fetch the
\* label, and a call fails on the signature only when the check has failed
\* twice, the second time on bytes fetched again.
C19_RefetchOnce ==
    \A j \in 1..Len(fetch_log) :
        LET e == fetch_log[j]
        IN  /\ e.before = "bad" => e.calls # <<>>
            /\ e.error = SignatureError => SignatureFailures(e) = 2

\* C20: the document written has one page per shipment id passed, in the
\* order passed, repeated ids included.
C20_PagesInOrder ==
    /\ lpc = "done" => out_doc # <<>>
    /\ out_doc # <<>>
          => /\ Len(out_doc) = Len(shipment_ids)
             /\ \A i \in 1..Len(out_doc) :
                   /\ out_doc[i].sid = shipment_ids[i]
                   /\ out_doc[i].blob = Label(shipment_ids[i], TRUE)

C20_Witness ==
    /\ lpc = "done"
    /\ shipment_ids = <<"shp_2", "shp_1">>
    /\ Len(out_doc) = 2
    /\ out_doc[1].sid = "shp_2" /\ out_doc[2].sid = "shp_1"

(***************************************************************************)
(* Progress reporting and label treatment (SpecLabels)                     *)
(***************************************************************************)
\* The "[idx/n] sid -> page" calls of status_cb, in the order made
PageCalls == SelectSeq(status_log, LAMBDA e : e.msg = "page")

\* The closing calls: "Merging pages ..." before the merge, "Done." after it
ClosingCalls ==
    \A j \in 1..Len(status_log) :
        /\ status_log[j].msg = "merging"
              => j = Len(status_log) - 1 /\ ~status_log[j].merged
        /\ status_log[j].msg = "done"
              => /\ j = Len(status_log) /\ j > 1 /\ status_log[j].merged
                 /\ status_log[j - 1].msg = "merging"

LetterKinds == {"letter", "flat", "envelope"}

\* The parcel of shipment sid at the carrier is of a letter kind, in any case
LetterLike(sid) == \E k \in LetterKinds : Lower(ShipmentParcel(sid)) = k

\* Page p has the letter treatment: rotated, not larger than the label and
\* within the fixed page, pasted at the left and centred vertically on a
\* canvas of exactly the page size
LetterTreated(p) ==
    LET page == <<TARGET_WIDTH_IN * TARGET_DPI, TARGET_HEIGHT_IN * TARGET_DPI>>
        label == LabelSize(p.blob)
    IN  /\ p.letter /\ p.rotated /\ p.mode = "RGB"
        /\ p.size = page
        /\ p.content[1] <= page[1] /\ p.content[2] <= page[2]
        /\ p.content[1] <= label[2] /\ p.content[2] <= label[1]
        /\ p.content[1] = page[1] \/ p.content[2] = page[2] \/ p.content = <<label[2], label[1]>>
        /\ p.at = <<0, (page[2] - p.content[2]) \div 2>>

\* Page p is the label as it came, colour mode apart
PassedThrough(p) ==
    /\ ~p.letter /\ ~p.rotated /\ p.mode = "RGB"
    /\ p.size = LabelSize(p.blob) /\ p.content = p.size /\ p.at = <<0, 0>>

\* C22: a page has the letter treatment exactly when the parcel of its
\* shipment is of a letter kind; every other page is passed through.
C22_LetterIffParcel ==
    \A i \in 1..Len(pdf_blobs) :
        LET p == pdf_blobs[i][1]
        IN  IF LetterLike(p.sid) THEN LetterTreated(p) ELSE PassedThrough(p)

\* C22 as the code has it: a shipment whose parcel could not be read is
\* treated as a letter too.
C22_LetterIffParcelOrUnread ==
    /\ Len(pdf_blobs) <= Len(fetch_log)
    /\ \A i \in 1..Len(pdf_blobs) :
          LET p == pdf_blobs[i][1]
          IN  /\ p.sid = fetch_log[i].sid
              /\ IF LetterLike(p.sid) \/ ~fetch_log[i].parcel_ok
                 THEN LetterTreated(p) ELSE PassedThrough(p)

C22_Witness ==
    /\ lpc = "done"
    /\ shipment_ids = <<"shp_1", "shp_2">>
    /\ fetch_log[1].parcel_ok /\ fetch_log[2].parcel_ok
    /\ ShipmentParcel("shp_1") = "Letter"
    /\ out_doc[1].rotated /\ out_doc[1].content = <<1200, 1800>>
    /\ ~out_doc[2].rotated /\ out_doc[2].size = <<1200, 1800>>

(***************************************************************************)
(* The report of the purchase operation (SpecBuy)                          *)
(***************************************************************************)
\* The handler has returned from a run in which a purchase succeeded
NonFatalRunEnded == pc = "idle" /\ order # <<>> /\ bought_ids # <<>>

\* C23: a run in which at least one purchase succeeded shows its accumulated
\* row errors exactly once, when it ends, and never more than once at any
\* time; the report comes with the document written.
C23_ErrorsReportedOnce ==
    /\ reported <= 1
    /\ reported = 1 => errors # <<>> /\ doc_written
    /\ (NonFatalRunEnded /\ errors # <<>>) => reported = 1

(***************************************************************************)
(* Fulfillment update properties (SpecFulfil, SpecWorkers)                 *)
(***************************************************************************)
\* Thread me has handled record idx: called the server for it, or counted it
\* as lacking an order id
Handled(me, idx) ==
    \/ \E j \in 1..Len(me.puts) : me.puts[j].idx = idx
    \/ \E j \in 1..Len(me.error_rows) :
          me.error_rows[j].idx = idx /\ me.error_rows[j].kind = "missing order id"

\* C24: a record that fails, whatever the failure, is counted and the loop
\* goes on to the next record: the counts always add up to the records
\* handled so far, every record is handled, and the counts of a batch that
\* has ended add up to the number of records.
C24_BatchNeverAborts ==
    \A w \in 1..Len(workers) :
        LET me == workers[w]
        IN  /\ me.i <= Len(f_rows)
            /\ me.ok_count + me.err_count = me.i
            /\ me.err_count = Len(me.error_rows)
            /\ \A idx \in 0..(me.i - 1) : Handled(me, idx)
            /\ me.pc = "done"
                  => /\ me.i = Len(f_rows)
                     /\ me.ok_count + me.err_count = Len(f_rows)

C24_Witness ==
    /\ Len(f_rows) = 2 /\ Len(workers) = 1
    /\ workers[1].pc = "done"
    /\ workers[1].ok_count = 1 /\ workers[1].err_count = 1
    /\ workers[1].error_rows[1].idx = 0
    /\ workers[1].error_rows[1].kind = "ConnectionError"
    /\ Len(workers[1].puts) = 2
    /\ workers[1].puts[2].status = 200
    /\ workers[1].report = "showwarning"

\* The columns a marketplace order id is read from
OrderIdKeys == {"mp_order_id", "manapool.order_id", "order_id"}

\* Value v of a row is missing: no such key, None, or blank
Empty(v) == v \in {Absent, None} \/ Strip(v) = ""

\* Row r has a marketplace order id
HasOrderId(r) == \E k \in OrderIdKeys : ~Empty(r[k])

\* The tracking value of column k a call for row r should carry
NullIfEmpty(r, k) == IF Empty(r[k]) THEN None ELSE Strip(r[k])

\* C25: a thread calls the server for exactly the records that have an order
\* id; each call carries the credentials, the order id of its record, the
\* target status and the tracking fields, a missing or blank one as null.
C25_UpdatesCarryTracking ==
    \A w \in 1..Len(workers) :
        LET me == workers[w]
        IN  /\ \A idx \in 0..(me.i - 1) :
                  (\E j \in 1..Len(me.puts) : me.puts[j].idx = idx)
                      <=> HasOrderId(f_rows[idx + 1])
            /\ \A j \in 1..Len(me.puts) :
                  LET p == me.puts[j]
                      r == f_rows[p.idx + 1]
                  IN  /\ p.headers = [email |-> f_creds.email, token |-> f_creds.api_key]
                      /\ p.headers.email # "" /\ p.headers.token # ""
                      /\ \E k \in OrderIdKeys : ~Empty(r[k]) /\ p.order_id = Strip(r[k])
                      /\ p.payload.status = default_status
                      /\ p.payload.tracking_company = NullIfEmpty(r, "tracking_company")
                      /\ p.payload.tracking_number = NullIfEmpty(r, "tracking_number")
                      /\ p.payload.tracking_url = NullIfEmpty(r, "tracking_url")

\* The threads that are inside their loop with records left to send
Sending == {w \in 1..Len(workers) : workers[w].pc = "loop" /\ workers[w].i < Len(f_rows)}

\* C26: the calls of a window are issued one after the other: at no time are
\* two threads of the window inside their loops with records left to send.
C26_OneWorkerAtATime == Cardinality(Sending) <= 1

(***************************************************************************)
(* Service assignment (SpecService)                                        *)
(***************************************************************************)
\* The service the configuration sets for letters
ConfiguredService == IF defaults.service = Absent THEN "First" ELSE defaults.service

\* C27: after an import every row classified as package has the service
\* GroundAdvantage and every other row the configured default service,
\* whatever carrier and service the configuration names.
C27_ServicePerClass ==
    Classified =>
        \A r \in DOMAIN data :
            /\ mask[r] => data[r].service = "GroundAdvantage"
            /\ ~mask[r] => data[r].service = ConfiguredService

C27_Witness ==
    /\ Classified
    /\ defaults.service = "Ground"
    /\ \E r \in DOMAIN data :
          /\ mask[r] /\ BlankPackage(r) /\ data[r].service = "GroundAdvantage"
    /\ \E r \in DOMAIN data :
          /\ ~mask[r] /\ data[r].predefined_package = "Letter"
          /\ data[r].service = "Ground"

(***************************************************************************)
(* The acquisition ladder and the direct fallback (SpecLabels)             *)
(***************************************************************************)
\* The place of a strategy in the fixed order
Rank(name) == CHOOSE k \in 1..Len(MethodNames) : MethodNames[k] = name

\* Where in the calls of log entry e the strategies were called
Tried(e) == {p \in 1..Len(e.calls) : \E k \in 1..Len(MethodNames) : e.calls[p] = MethodNames[k]}

\* Where in the calls of log entry e the request named req was sent
Asked(e, req) == {p \in 1..Len(e.calls) : e.calls[p] = req}

\* Log entry e is a cache miss whose shipment was retrieved
Retrieved(e) == e.result # "cached" /\ e.outcomes[1] = "ok"

\* C28: on a cache miss the shipment is retrieved first; the strategies the
\* client offers are then called in the order generate_label, label,
\* convert_label, right after the retrieve; a strategy is called exactly when
\* no strategy called before it returned a URL, so a strategy that raises or
\* returns no URL is followed by the next one and nothing is called after the
\* first URL.
C28_LadderInOrder ==
    \A j \in 1..Len(fetch_log) :
        LET e == fetch_log[j]
        IN  e.result # "cached" =>
              /\ e.calls[1] = "retrieve"
              /\ Asked(e, "retrieve") = {1}
              /\ e.outcomes[1] = "raise" => Len(e.calls) = 1
              /\ e.outcomes[1] = "ok" =>
                    /\ Tried(e) = 2..(1 + Cardinality(Tried(e)))
                    /\ \A p, q \in Tried(e) :
                          p < q => Rank(e.calls[p]) < Rank(e.calls[q])
                    /\ \A p \in Tried(e) : Rank(e.calls[p]) \in e.offered
                    /\ \A k \in e.offered :
                          (\E p \in Tried(e) : Rank(e.calls[p]) = k)
                          <=> (\A p \in Tried(e) :
                                 Rank(e.calls[p]) < k => e.outcomes[p] # "url")

C28_Witness ==
    /\ lpc = "done"
    /\ \E j \in 1..Len(fetch_log) :
          /\ fetch_log[j].offered = {1, 2, 3}
          /\ fetch_log[j].calls = <<"retrieve", "generate_label", "label", "download">>
          /\ fetch_log[j].outcomes = <<"ok", "raise", "url", "ok">>
    /\ \E j \in 1..Len(fetch_log) :
          /\ fetch_log[j].offered = {1, 3}
          /\ fetch_log[j].calls = <<"retrieve", "generate_label", "convert_label", "download">>
          /\ fetch_log[j].outcomes = <<"ok", "nourl", "url", "ok">>

\* C29: the label endpoint is asked exactly when no strategy returned a URL;
\* the GET is sent first and once, the POST is sent exactly when the GET came
\* back rejected, and when the last response is rejected or carries no URL
\* the fetch fails without downloading anything.
C29_FallbackGetThenPost ==
    \A j \in 1..Len(fetch_log) :
        LET e == fetch_log[j]
            last == CHOOSE p \in Asked(e, "GET") \cup Asked(e, "POST") :
                        \A q \in Asked(e, "GET") \cup Asked(e, "POST") : q <= p
        IN  /\ ~Retrieved(e) => Asked(e, "GET") \cup Asked(e, "POST") = {}
            /\ Retrieved(e) =>
                  /\ Asked(e, "GET") # {}
                        <=> (\A p \in Tried(e) : e.outcomes[p] # "url")
                  /\ Cardinality(Asked(e, "GET")) <= 1
                  /\ \A p \in Asked(e, "GET") : \A q \in Tried(e) : q < p
                  /\ \A q \in Asked(e, "POST") :
                        \E p \in Asked(e, "GET") :
                            q = p + 1 /\ e.outcomes[p] = "rejected"
                  /\ \A p \in Asked(e, "GET") :
                        e.outcomes[p] = "rejected" => Asked(e, "POST") = {p + 1}
                  /\ (Asked(e, "GET") # {} /\ e.outcomes[last] # "url") =>
                        /\ e.result = "failed"
                        /\ last = Len(e.calls)

C29_Witness ==
    /\ Len(fetch_log) = 2
    /\ \E j \in 1..Len(fetch_log) :
          /\ fetch_log[j].calls = <<"retrieve", "generate_label", "label", "convert_label",
                                    "GET", "POST", "download">>
          /\ fetch_log[j].outcomes = <<"ok", "nourl", "raise", "nourl",
                                       "rejected", "url", "ok">>
          /\ fetch_log[j].result = "fetched"
    /\ \E j \in 1..Len(fetch_log) :
          /\ fetch_log[j].calls = <<"retrieve", "GET">>
          /\ fetch_log[j].outcomes = <<"ok", "nourl">>
          /\ fetch_log[j].result = "failed"

(***************************************************************************)
(* Retries of the update call (SpecFulfil)                                 *)
(***************************************************************************)
\* The update calls made so far, each with the thread that made it
UpdateCalls == {c \in (1..Len(workers)) \X (1..MaxRecords) :
                   c[2] <= Len(workers[c[1]].puts)}

\* Status 429 or any status from 500 to 599
TooManyOr5xx(status) == status = 429 \/ (500 <= status /\ status <= 599)

\* The call ended without a 2xx response
CallFailed(p) == p.raised \/ ~(200 <= p.status /\ p.status < 300)

\* How many error lines the thread me wrote for record idx
ErrorLines(me, idx) ==
    Cardinality({j \in 1..Len(me.error_rows) : me.error_rows[j].idx = idx})

\* The thread me counted the failed call p as one failed record and went on
CountedAndContinued(me, p) ==
    /\ ErrorLines(me, p.idx) = 1
    /\ me.err_count = Len(me.error_rows)
    /\ me.i > p.idx
    /\ me.pc = "done" => me.i = Len(f_rows)

C31_EmptyRulesUnclassified ==
    (Classified /\ rules = <<>>) =>
        \A r \in DOMAIN data :
            ~call.is_package[r] =>
                /\ ~mask[r]
                /\ call.applied[r] = 0
                /\ BlankPackage(r)
                /\ data[r].machinable = ""

C31_Witness ==
    /\ Classified /\ rules = <<>>
    /\ \E r \in DOMAIN data :
          /\ ~call.is_package[r] /\ call.card_count[r] = 3
          /\ ~mask[r] /\ BlankPackage(r) /\ data[r].machinable = ""

(***************************************************************************)
(* The two result lists of the purchase loop (SpecBuy)                     *)
(***************************************************************************)
\* Row idx has its shipment id in the purchased list
Purchased(idx) == \E j \in 1..Len(bought_ids) : bought_ids[j] = ShipmentId(idx)

\* Row idx has an entry in the error list
Errored(idx) == \E j \in 1..Len(errors) : errors[j][1] = idx

\* C32: once the loop has ended every row of the batch is in exactly one of
\* the two lists, purchased or errored, so that the two lists together are as
\* long as the batch, also when a step after the buy call raised.
C32_ExactlyOneList ==
    LoopDone =>
        /\ \A p \in 1..Len(order) : Purchased(order[p]) # Errored(order[p])
        /\ Len(bought_ids) + Len(errors) = Len(order)

(***************************************************************************)
(* What the label cache receives (SpecLabels)                              *)
(***************************************************************************)
\* C33: a fetch_or_cache_png_for_shipment call adds to the cache only bytes
\* that carry the PNG signature, which are the bytes it returns after its
\* download; it removes an entry only by writing that file anew; and a call
\* that fails, at whatever step, or that is served from the cache leaves the
\* cache as it was.
C33_CacheOnlyVerified ==
    [][FetchStep =>
         LET e == fetch_log'[Len(fetch_log')]
         IN  /\ e.result # "fetched" => cache' = cache
             /\ \A r \in cache' \ cache :
                   /\ r[2].png
                   /\ r[2] \in e.blob
                   /\ e.result = "fetched"
                   /\ e.calls[Len(e.calls)] = "download"
                   /\ e.outcomes[Len(e.calls)] = "ok"
             /\ \A r \in cache \ cache' : \E q \in cache' \ cache : q[1] = r[1]]_vars

C33_Witness ==
    /\ Len(fetch_log) = 2
    /\ fetch_log[1].sid = "shp_2" /\ fetch_log[1].result = "fetched"
    /\ fetch_log[2].sid = "shp_3" /\ fetch_log[2].result = "failed"
    /\ fetch_log[2].error = SignatureError
    /\ fetch_log[2].calls[Len(fetch_log[2].calls)] = "download"
    /\ cache = {<<"label_cache/shp_2.png", Label("shp_2", TRUE)>>}

(***************************************************************************)
(* Cache files per shipment id (SpecCache)                                 *)
(***************************************************************************)
\* C34: two different shipment ids of a build never have the same cache
\* file, and the bytes a call returns are a label of the shipment it was
\* called for.
C34_DistinctEntries ==
    /\ \A i, j \in 1..Len(fetch_log) :
          fetch_log[i].sid # fetch_log[j].sid
             => cache_png_path(fetch_log[i].sid) # cache_png_path(fetch_log[j].sid)
    /\ \A j \in 1..Len(fetch_log) :
          \A b \in fetch_log[j].blob : b.of = fetch_log[j].sid

(***************************************************************************)
(* The output document is written whole or not at all (SpecLabels)         *)
(***************************************************************************)
\* The calls of the current build that raised
FailedFetches == {j \in 1..Len(fetch_log) : fetch_log[j].result = "failed"}

\* C35: a document is written only when the label of every id of the build
\* was acquired and made a page, and it then has one page per id; once the
\* acquisition of an id has failed the build is over: no id after it is
\* processed, no page is added and no document is written.
C35_AllOrNothing ==
    /\ out_doc # <<>> =>
          /\ FailedFetches = {}
          /\ Len(fetch_log) = Len(shipment_ids)
          /\ Len(pdf_blobs) = Len(shipment_ids)
          /\ Len(out_doc) = Len(shipment_ids)
          /\ \A j \in 1..Len(fetch_log) : fetch_log[j].sid = shipment_ids[j]
    /\ \A j \in FailedFetches :
          /\ j = Len(fetch_log)
          /\ fetch_log[j].sid = shipment_ids[j]
          /\ Len(pdf_blobs) = j - 1
          /\ out_doc = <<>>
          /\ lpc \in {"failed", "idle"}

C35_Witness ==
    /\ lpc = "idle"
    /\ shipment_ids = <<"shp_2", "shp_1">>
    /\ cache = {<<"label_cache/shp_1.png", Label("shp_1", TRUE)>>}
    /\ Len(fetch_log) = 1
    /\ fetch_log[1].error = "HTTPError"
    /\ out_doc = <<>>

(***************************************************************************)
(* The controls after a purchase operation (SpecBuy)                       *)
(***************************************************************************)
\* The handler has disabled the controls and has not reached its end
Buying == pc \in {"loop", "build", "finally"}

\* The last purchase operation disabled the controls and has ended
BoughtAndEnded == pc = "idle" /\ outcome \in {"ok", "fatal", "exception"}

\* C36: while the operation runs the three controls are disabled; once it
\* has ended, by completion, by the return taken when nothing was bought or by
\* an exception of the label build, Load is enabled, Save is enabled unless a
\* package row lacks dimensions, Buy is enabled unless a package row lacks
\* dimensions or there are no rows, and none of the three is left disabled.
C36_ControlsRestored ==
    /\ Buying /\ pc # "finally" => buttons = ButtonsDisabled
    /\ BoughtAndEnded =>
          /\ buttons.load = "normal"
          /\ buttons.save = "normal" <=> _packages_missing_count = 0
          /\ buttons.buy = "normal" <=> (_packages_missing_count = 0 /\ Len(index) > 0)
          /\ buttons = [load |-> "normal", save |-> "normal", buy |-> "normal"]

C36_Witness ==
    /\ pc = "idle" /\ outcome = "exception"
    /\ bought_ids # <<>> /\ errors # <<>>
    /\ buttons = [load |-> "normal", save |-> "normal", buy |-> "normal"]
    /\ \E r \in DOMAIN data : mask[r]

(***************************************************************************)
(* A parcel that cannot be read (SpecLabels)                               *)
(***************************************************************************)
\* The iterations of the current build in which reading the parcel raised
Unread == {j \in 1..Len(fetch_log) : ~fetch_log[j].parcel_ok}

\* C37: an iteration whose parcel lookup raised goes on to the acquisition
\* of its label as any other: a label not in the cache is asked of the
\* carrier, the build fails there only with the error of the acquisition,
\* and a label acquired becomes a page with the letter treatment, whatever
\* the parcel of the shipment is.
C37_UnreadParcelIsLetter ==
    \A j \in Unread :
        LET e == fetch_log[j]
        IN  /\ e.before # "png" => (e.calls # <<>> /\ e.calls[1] = "retrieve")
            /\ e.result = "failed" => (e.error # "" /\ e.calls # <<>>)
            /\ e.result # "failed" =>
                  /\ j <= Len(pdf_blobs)
                  /\ pdf_blobs[j][1].sid = e.sid
                  /\ pdf_blobs[j][1].blob \in e.blob
                  /\ LetterTreated(pdf_blobs[j][1])

C37_Witness ==
    /\ lpc = "done" /\ Len(out_doc) = 2
    /\ \E j \in Unread :
          /\ fetch_log[j].sid = "shp_2" /\ ~LetterLike("shp_2")
          /\ fetch_log[j].result = "fetched"
          /\ LetterTreated(pdf_blobs[j][1])
          /\ pdf_blobs[j][1].content = <<1200, 800>>

(***************************************************************************)
(* Sort-mode changes (SpecConvert)                                         *)
(***************************************************************************)
\* A step of _on_sort_mode_changed that shows in the state
SortStep == call' = NoCall /\ (sort_mode' # sort_mode \/ index' # index)

\* C38: a change of the sort mode permutes the rows and nothing else: every
\* row keeps its columns, parcel fields and service among them, and its
\* is_package flag, the row labels are reordered only, and under "Platform"
\* the rows stay in the order they were in.
C38_SortOnlyPermutes ==
    [][SortStep =>
         /\ data' = data
         /\ mask' = mask
         /\ loaded' = loaded
         /\ index' \in Perms(index)
         /\ sort_mode' = "Platform" => index' = index]_vars

C38_Witness ==
    /\ sort_mode = "Platform"
    /\ index = <<2, 1>>
    /\ data[1].name = "amy" /\ data[2].name = "Bob"
    /\ mask[2] /\ ~mask[1]
    /\ data[2].service = "GroundAdvantage" /\ data[1].service = "First"
    /\ data[2].length = "6"

====
